---- MODULE Spec2Model ----
(***************************************************************************)
(* deck8-hub: the real-time audio pipeline of src-tauri/src/audio.rs       *)
(* (capture ring buffer, injection ring buffer, MicSource mixer,           *)
(* play_sound, volume cells) and the pipeline slot of src-tauri/src/lib.rs *)
(* (try_auto_start_pipeline).                                              *)
(*                                                                         *)
(* Samples are f32 in the code; here they are integers, and the mixer's    *)
(* arithmetic is integer arithmetic.  A sample in the injection buffer     *)
(* carries, besides its value v, the play_sound call that pushed it and    *)
(* its position in that call's clip; the code stores only v.               *)
(***************************************************************************)
EXTENDS Integers, Sequences, FiniteSets, TLC

\* ---------------------------------------------------------------- bounds

\* play_sound calls that reach the injection step, over one run
MaxPlays == 2
\* samples one input callback delivers at most (the length of `data`)
MaxChunk == 2
\* length of the long clip, in samples
LongLen == 32
\* calls of try_auto_start_pipeline over one run
MaxCmds == 3
\* channels, sample rates and frames of the clips given to the converter
MaxChannels == 3
MaxRate == 3
MaxFrames == 2
MaxMono == 3
MaxKeys == 2
MaxImports == 2
MaxTicks == 1
\* keystrokes and advances of the tick count
MaxStrokes == 1
MaxAdvances == 2
MaxPresses == 2
\* commands on the keys and the pad in a behaviour
MaxEdits == 3
\* threads that run commands and handlers at the same time
MaxThreads == 2

\* ------------------------------------------------------ program constants

\* audio.rs:359  sound_buf_size = sample_rate * channels * 30
SoundBufSeconds == 30

\* ------------------------------------------------------------ environment

AppThreads == {"t1", "t2"}
NoThread == "none"

\* values the microphone delivers
MicSamples == {3, 5}
\* volume values (f32 in the code)
Vols == {1, 2}
\* state.rs:76-78
default_volume == 1

\* cpal's enumerated input devices with their default input config
InputDevices == {"Mic"}
InputConfig(d) == [channels |-> 1, sample_rate |-> 1]
OutputDevices == {"CABLE Input", "Speakers"}

\* the threads that run the device commands and the setup hook
CmdThreads == {"c1", "c2"}
\* device names a command can be given: enumerated ones and ones that are not
Unset == "unset"
InputNames == {"Mic", "Gone Mic"}
OutputNames == {"CABLE Input", "Speakers", "BlackHole 2ch"}

\* lib.rs:676-679  the name contains "cable", "blackhole" or "virtual",
\* whatever the case of its letters
is_virtual_cable(name) == name \in {"CABLE Input", "BlackHole 2ch"}

\* Files on disk: what Decoder yields for each path.  "missing" cannot be
\* opened and "corrupt" cannot be decoded.
GoodPaths == {"short", "long"}
BadPaths == {"missing", "corrupt"}
Paths == GoodPaths \cup BadPaths

\* Formats a default input config can have, and with it the pipeline
InputFormats == {[channels |-> c, sample_rate |-> r] : c \in 1..2, r \in 1..MaxRate}

\* What a decoder can yield: frames of 1 to MaxChannels samples at some rate.
\* Channel c of every frame holds the value 12 * c.
ClipOf(channels, sample_rate, frames) ==
    [channels |-> channels, sample_rate |-> sample_rate,
     raw |-> [i \in 1..(channels * frames) |-> 12 * (1 + ((i - 1) % channels))]]

Clips ==
    {ClipOf(c, r, n) : c \in 1..MaxChannels, r \in 1..MaxRate, n \in 1..MaxFrames}

\* Mono recordings of up to MaxMono samples, for the converter alone
SampleValues == {-12, 6, 12}
MonoClips ==
    {[channels |-> 1, sample_rate |-> 1, raw |-> r] :
        r \in UNION {[1..n -> SampleValues] : n \in 0..MaxMono}}

\* Recordings at the rates of real files and devices: mono and stereo, a few
\* tens of milliseconds long, and the mono 8 kHz recording of 500 ms
Rates == {8000, 44100, 48000}
ShortMs == {0, 10, 20, 30}
RateClips ==
    {ClipOf(c, r, (r * ms) \div 1000) : c \in 1..2, r \in Rates, ms \in ShortMs}
        \cup {ClipOf(1, 8000, 4000)}

\* Option<String>::None for a key without sound; an id is never empty
None == <<>>
Keys == 1..MaxKeys

\* Files the user can import: Path::extension() of "take" is None.  "gone.wav"
\* cannot be opened.
SourceFiles == {[stem |-> "kick", ext |-> "wav"], [stem |-> "horn", ext |-> "mp3"],
                [stem |-> "take", ext |-> ""], [stem |-> "gone", ext |-> "wav"]}
Readable(src) == src.stem # "gone"
\* What Decoder yields for a readable file: 20 ms of audio
StereoSource == ClipOf(2, 44100, 882)
MonoSource == ClipOf(1, 8000, 160)
DecodedSource(src) == IF src.stem = "horn" THEN StereoSource ELSE MonoSource
DisplayNames == {"Kick"}
\* lib.rs:816  new_name of rename_sound: a new name, and the name the sounds have
NewNames == {"Snare", "Kick"}

\* The clock when the application starts, just before a full second, and the
\* instants at which the sounds already in the library were imported
FirstInstant == 4999
OldInstants == <<3007, 3008>>

Decoded(p) ==
    IF p = "short"
    THEN [channels |-> 1, sample_rate |-> 1, raw |-> <<6, 12>>]
    ELSE [channels |-> 1, sample_rate |-> 1,
          raw |-> [i \in 1..LongLen |-> 6 * (1 + (i % 2))]]

\* ------------------------------------------------------------------ state

VARIABLES
    alive,      \* the AudioPipeline exists (constructed, not yet dropped)
    fmt,        \* pipeline_channels, pipeline_sample_rate
    inputOn,    \* the cpal input stream still delivers data
    capBuf,     \* capture ring buffer (producer: input callback, consumer: MicSource)
    injBuf,     \* injection ring buffer (producer: play_sound, consumer: MicSource)
    micVol,     \* AudioPipeline.mic_volume   (AtomicU32 holding f32 bits)
    sndVol,     \* AudioPipeline.sound_volume (AtomicU32 holding f32 bits)
    prodLock,   \* holder of the Mutex around sound_producer
    cbData,     \* samples of the running input callback still to be pushed
    out,        \* what MicSource::next returned last
    pc,         \* per application thread: where it is in play_sound
    clip,       \* per application thread: `resampled`
    idx,        \* per application thread: position of the push loop in `resampled`
    call,       \* per application thread: number of its play_sound call
    ret,        \* per application thread: what its last play_sound returned
    nCalls,     \* play_sound calls that decoded their file so far
    monitors,   \* monitoring threads spawned by play_sound: how many still run,
                \* and whether one gave up because the default output did not open
    slot,       \* ManagedAudioPipeline's Option<AudioPipeline>: 0 is None, else the
                \* pipeline it holds
    pipes,      \* the AudioPipelines that exist (constructed and not yet dropped)
    audio_config, \* AppState.audio_config: devices, volumes, soundboard_enabled
    cpc,        \* per command thread: where it is in try_auto_start_pipeline
    local,      \* per command thread: the locals of try_auto_start_pipeline
    nCmds,      \* calls of try_auto_start_pipeline so far
    overlap,    \* history: two calls of try_auto_start_pipeline have been in
                \* progress at once
    conv,       \* the locals of play_sound's conversion block, for the runs of
                \* the converter alone
    sound_library, \* AudioConfig.sound_library: the SoundEntry records, in order
    key_sounds, \* AudioConfig.key_sounds: per key the id of its sound, or None
    storage,    \* the files of sounds_dir(): name and content of each
    persisted,  \* sound_library and key_sounds as persist_state wrote them last
    now,        \* SystemTime::now() in milliseconds since UNIX_EPOCH
    nImports,   \* import commands so far
    lret,       \* the last library command and what it returned
    tick,       \* GetTickCount64(): milliseconds since the system started
    LAST_TOGGLE, \* per key the tick of the last should_toggle call (AtomicU64)
    hookLock,   \* holder of the HOOK_STATE mutex
    shortcuts,  \* HookState.shortcuts: per key no entry, a user shortcut or an
                \* internal one
    det,        \* per detector (low-level hook, Raw Input thread): where it is
                \* in the handling of its key event, and what it did
    stroke,     \* the keystroke under way: its number, its key and how many
                \* do_toggle_key threads were spawned for it
    regpc,      \* where register_shortcuts is
    keymaps,    \* AppState.keymaps: the keycode of each keymap index
    userSet,    \* history: per keymap index, its keycode was written last by
                \* set_keycode and is not 0
    shortcut_map, \* AppState.shortcut_map: display string -> (LED index,
                \* keycode, registration string)
    registered, \* the shortcuts registered with the global-shortcut plugin
    active_slot, \* AppState.keys[k].active_slot of each key
    tog,        \* per application thread: where it is in do_toggle_key, and
                \* what this call has done
    nPress,     \* calls of do_toggle_key so far
    replay,     \* per replay thread of the shortcut handler: where it is
    events,     \* shortcut events the plugin has queued for the handler
    emitted,    \* history: the keystrokes simulate_qmk_keystroke emitted, and
                \* whether their shortcut was registered then
    keycfg,     \* AppState.keys[k]: slot_a, slot_b and override_enabled
    global_slot, \* AppState.active_slot, the global indicator
    device,     \* AppState.device is Some: a pad is connected
    devKeys,    \* the pad: per key, whether its override is enabled, and the
                \* colour (h, s, v) it was sent last
    devKeymaps, \* the pad: the keycode of each keymap index of layer 0
    ledFailed,  \* history: a report of a key's LED could not be written since
                \* the pad was connected
    nEdits,     \* commands on the keys and the pad so far
    mutex,      \* the owner of SharedState's mutex and of the pipeline slot's
    lk          \* per thread: the routine it runs, how far it is in the
                \* routine's lock and unlock calls, the mutexes it holds

\* The variables alive .. sndVol describe the pipeline the slot holds.
lifeVars == <<slot, pipes, audio_config, cpc, local, nCmds, overlap>>

\* What the pipeline and its slot never touch
libVars == <<sound_library, key_sounds, storage, persisted, now, nImports, lret>>
\* The keyboard hook and the Raw Input thread (keyboard_hook.rs)
hookVars == <<tick, LAST_TOGGLE, hookLock, shortcuts, det, stroke, regpc>>
\* The key map and the global shortcuts made from it (lib.rs)
mapVars == <<keymaps, userSet, shortcut_map, registered>>
\* Key presses: do_toggle_key and the global-shortcut handler (lib.rs)
pressVars == <<active_slot, tog, nPress, replay, events, emitted>>
\* The key configuration and the pad (lib.rs, hid.rs)
devVars == <<keycfg, global_slot, device, devKeys, devKeymaps, ledFailed,
            nEdits>>
\* The two mutexes and the threads that take them (lib.rs)
lockVars == <<mutex, lk>>
keyVars == <<hookVars, mapVars, pressVars, devVars, lockVars>>
offlineVars == <<conv, libVars, keyVars>>

vars == <<alive, fmt, inputOn, capBuf, injBuf, micVol, sndVol, prodLock, cbData,
          out, pc, clip, idx, call, ret, nCalls, monitors, lifeVars, offlineVars>>

\* ------------------------------------------------------------ ring buffer

\* a buffer that grows instead of refusing the sample
TryPushGrow(buf, capacity, s) == Append(buf, s)

\* a ring buffer that overwrites its oldest sample when it is full
TryPushOverwrite(buf, capacity, s) ==
    IF Len(buf) < capacity THEN Append(buf, s) ELSE Append(Tail(buf), s)

\* HeapRb::new(capacity): try_push fails on a full buffer and leaves it as it is
TryPush(buf, capacity, s) ==
    IF Len(buf) < capacity THEN Append(buf, s) ELSE buf

\* a pop that yields full scale from an empty buffer
PopValueOrOne(buf) == IF buf = <<>> THEN 1 ELSE Head(buf)
\* try_pop().unwrap_or(0.0): the value popped, 0 from an empty buffer
PopValue(buf) == IF buf = <<>> THEN 0 ELSE Head(buf)
\* a pop that reads the oldest sample and leaves it in the buffer
PopRestStuck(buf) == buf
PopRest(buf) == IF buf = <<>> THEN buf ELSE Tail(buf)

\* audio.rs:354 / 359
CaptureCapacity(f) == f.sample_rate * f.channels
InjectionCapacity(f) == f.sample_rate * f.channels * SoundBufSeconds

\* -------------------------------------------------- play_sound: conversion

\* a stereo-to-mono rule that adds the two channels and does not halve
ChannelConvertSum(raw, src_channels, dst_channels) ==
    IF src_channels = 2 /\ dst_channels = 1
    THEN [j \in 1..((Len(raw) + 1) \div 2) |->
            raw[2 * j - 1] + (IF 2 * j <= Len(raw) THEN raw[2 * j] ELSE 0)]
    ELSE IF src_channels = 1 /\ dst_channels = 2
    THEN [j \in 1..(2 * Len(raw)) |-> raw[(j + 1) \div 2]]
    ELSE raw

\* audio.rs:436-444  channel conversion of the decoded samples
ChannelConvert(raw, src_channels, dst_channels) ==
    IF src_channels = 2 /\ dst_channels = 1
    THEN [j \in 1..((Len(raw) + 1) \div 2) |->
            (raw[2 * j - 1] + (IF 2 * j <= Len(raw) THEN raw[2 * j] ELSE 0)) \div 2]
    ELSE IF src_channels = 1 /\ dst_channels = 2
    THEN [j \in 1..(2 * Len(raw)) |-> raw[(j + 1) \div 2]]
    ELSE raw

\* ------------------------------------------------------------ f64 arithmetic
\* The resampler computes its ratio and its output length in f64 (audio.rs:448-
\* 449).  A positive f64 is m * 2^e with 2^52 <= m < 2^53; m is kept as four
\* digits of 15 bits, least significant first, and 0.0 as four zero digits.
Digit == 32768

F64Zero == [m |-> <<0, 0, 0, 0>>, e |-> 0]

\* 2 * a + bit
BigTwice(a, bit) ==
    LET y1 == 2 * a[1] + bit
        y2 == 2 * a[2] + y1 \div Digit
        y3 == 2 * a[3] + y2 \div Digit
        y4 == 2 * a[4] + y3 \div Digit
    IN  <<y1 % Digit, y2 % Digit, y3 % Digit, y4 % Digit>>

\* a \div 2
BigHalf(a) ==
    <<a[1] \div 2 + (a[2] % 2) * (Digit \div 2),
      a[2] \div 2 + (a[3] % 2) * (Digit \div 2),
      a[3] \div 2 + (a[4] % 2) * (Digit \div 2),
      a[4] \div 2>>

\* a - b, for a >= b
BigSub(a, b) ==
    LET y1 == a[1] - b[1]
        y2 == a[2] - b[2] - (IF y1 < 0 THEN 1 ELSE 0)
        y3 == a[3] - b[3] - (IF y2 < 0 THEN 1 ELSE 0)
        y4 == a[4] - b[4] - (IF y3 < 0 THEN 1 ELSE 0)
    IN  <<(y1 + Digit) % Digit, (y2 + Digit) % Digit,
          (y3 + Digit) % Digit, (y4 + Digit) % Digit>>

\* a + 1
BigInc(a) ==
    LET y1 == a[1] + 1
        y2 == a[2] + y1 \div Digit
        y3 == a[3] + y2 \div Digit
        y4 == a[4] + y3 \div Digit
    IN  <<y1 % Digit, y2 % Digit, y3 % Digit, y4 % Digit>>

BigGreater(a, b) ==
    \E i \in 1..4 : a[i] > b[i] /\ \A j \in (i + 1)..4 : a[j] = b[j]

\* 2^52 <= m: the top digit holds bits 45..59
Normal(m) == m[4] >= 128

\* digit i of n * 2^j, for 0 <= n < 2^30
ShiftedDigit(n, j, i) ==
    LET s == j - 15 * (i - 1)
    IN  IF s >= 15 THEN 0
        ELSE IF s >= 0 THEN (n % (2 ^ (15 - s))) * (2 ^ s)
        ELSE IF s > -30 THEN (n \div (2 ^ (-s))) % Digit
        ELSE 0

\* `n as f64` for 0 <= n < 2^30: exact, n = m * 2^e with m of 53 bits
F64(n) ==
    IF n = 0 THEN F64Zero
    ELSE LET bits == CHOOSE l \in 1..30 : n \div (2 ^ (l - 1)) = 1
             j == 53 - bits
         IN  [m |-> <<ShiftedDigit(n, j, 1), ShiftedDigit(n, j, 2),
                      ShiftedDigit(n, j, 3), ShiftedDigit(n, j, 4)>>,
              e |-> -j]

\* The long division by d: q holds the quotient bits found so far and r the
\* remainder; it stops when q has 53 bits.
RECURSIVE DivBits(_, _, _)
DivBits(q, r, d) ==
    IF Normal(q) THEN [q |-> q, r |-> r]
    ELSE LET r2 == BigTwice(r, 0)
         IN  IF BigGreater(d, r2)
             THEN DivBits(BigTwice(q, 0), r2, d)
             ELSE DivBits(BigTwice(q, 1), BigSub(r2, d), d)

\* x / y in f64, for y > 0: the 53-bit quotient of the mantissas, rounded to
\* nearest, ties to even
FDiv(x, y) ==
    IF x = F64Zero THEN F64Zero
    ELSE LET less == BigGreater(y.m, x.m)
             qr == IF less THEN DivBits(F64Zero.m, x.m, y.m)
                   ELSE DivBits(BigInc(F64Zero.m), BigSub(x.m, y.m), y.m)
             e == x.e - y.e - (IF less THEN 53 ELSE 52)
             r2 == BigTwice(qr.r, 0)
             up == BigGreater(r2, y.m) \/ (r2 = y.m /\ qr.q[1] % 2 = 1)
             q1 == IF up THEN BigInc(qr.q) ELSE qr.q
         IN  IF q1[4] >= 256 THEN [m |-> BigHalf(q1), e |-> e + 1]
             ELSE [m |-> q1, e |-> e]

\* `x as usize` for 0 <= x < 2^30: the integer part, m without its -e low bits
AsUsize(x) ==
    IF x = F64Zero \/ x.e <= -53 THEN 0
    ELSE LET k == -x.e
             Part(i) == LET s == 15 * (i - 1) - k
                        IN  IF s >= 0 THEN x.m[i] * (2 ^ s)
                            ELSE IF s > -15 THEN x.m[i] \div (2 ^ (-s))
                            ELSE 0
         IN  Part(1) + Part(2) + Part(3) + Part(4)

\* x[i] * y[j], 0 when j is no digit of y
DigitProduct(x, y, i, j) == IF j \in 1..4 THEN x[i] * y[j] ELSE 0
\* What the digit products put into digit c of the product of two mantissas:
\* their low halves, and the high halves of the digit below
ProductColumn(x, y, c) ==
    (DigitProduct(x, y, 1, c) % Digit) + (DigitProduct(x, y, 2, c - 1) % Digit)
  + (DigitProduct(x, y, 3, c - 2) % Digit) + (DigitProduct(x, y, 4, c - 3) % Digit)
  + (DigitProduct(x, y, 1, c - 1) \div Digit) + (DigitProduct(x, y, 2, c - 2) \div Digit)
  + (DigitProduct(x, y, 3, c - 3) \div Digit) + (DigitProduct(x, y, 4, c - 4) \div Digit)
\* The product of two mantissas: eight digits of 15 bits
BigProduct(x, y) ==
    LET c1 == ProductColumn(x, y, 1)
        c2 == ProductColumn(x, y, 2) + c1 \div Digit
        c3 == ProductColumn(x, y, 3) + c2 \div Digit
        c4 == ProductColumn(x, y, 4) + c3 \div Digit
        c5 == ProductColumn(x, y, 5) + c4 \div Digit
        c6 == ProductColumn(x, y, 6) + c5 \div Digit
        c7 == ProductColumn(x, y, 7) + c6 \div Digit
        c8 == ProductColumn(x, y, 8) + c7 \div Digit
    IN  <<c1 % Digit, c2 % Digit, c3 % Digit, c4 % Digit,
          c5 % Digit, c6 % Digit, c7 % Digit, c8 % Digit>>

\* x * y in f64: the product of the mantissas, 105 or 106 bits, cut to its
\* top 53 bits and rounded to nearest, ties to even
FMul(x, y) ==
    IF x = F64Zero \/ y = F64Zero THEN F64Zero
    ELSE LET p == BigProduct(x.m, y.m)
             b == IF p[8] >= 1 THEN 8 ELSE 7
             Part(i) == p[i + 3] \div (2 ^ b)
                          + (p[i + 4] % (2 ^ b)) * (2 ^ (15 - b))
             q == <<Part(1), Part(2), Part(3), Part(4)>>
             round == (p[4] \div (2 ^ (b - 1))) % 2 = 1
             sticky == p[1] + p[2] + p[3] > 0 \/ p[4] % (2 ^ (b - 1)) # 0
             up == round /\ (sticky \/ q[1] % 2 = 1)
             q1 == IF up THEN BigInc(q) ELSE q
             e == x.e + y.e + 45 + b
         IN  IF q1[4] >= 256 THEN [m |-> BigHalf(q1), e |-> e + 1]
             ELSE [m |-> q1, e |-> e]

\* ---------------------------------------------------------- usize arithmetic
\* start_ms and end_ms are u64 and the sample offsets usize, 64 bits wide: five
\* digits of 15 bits, least significant first, the top one holding bits 60..63.

\* the u64 of 0 <= n < 2^31
U64(n) == <<n % Digit, (n \div Digit) % Digit, n \div (Digit * Digit), 0, 0>>

\* a * k for 0 <= k <= 48000: the product modulo 2^64, and whether it overflowed
U64Times(a, k) ==
    LET y1 == a[1] * k
        y2 == a[2] * k + y1 \div Digit
        y3 == a[3] * k + y2 \div Digit
        y4 == a[4] * k + y3 \div Digit
        y5 == a[5] * k + y4 \div Digit
    IN  [value |-> <<y1 % Digit, y2 % Digit, y3 % Digit, y4 % Digit, y5 % 16>>,
         overflow |-> y5 >= 16]

\* a / k for 0 < k <= 48000
U64Div(a, k) ==
    LET r5 == a[5]
        r4 == (r5 % k) * Digit + a[4]
        r3 == (r4 % k) * Digit + a[3]
        r2 == (r3 % k) * Digit + a[2]
        r1 == (r2 % k) * Digit + a[1]
    IN  <<r1 \div k, r2 \div k, r3 \div k, r4 \div k, r5 \div k>>

\* a - b modulo 2^64, and whether it underflowed
U64Minus(a, b) ==
    LET y1 == a[1] - b[1]
        y2 == a[2] - b[2] - (IF y1 < 0 THEN 1 ELSE 0)
        y3 == a[3] - b[3] - (IF y2 < 0 THEN 1 ELSE 0)
        y4 == a[4] - b[4] - (IF y3 < 0 THEN 1 ELSE 0)
        y5 == a[5] - b[5] - (IF y4 < 0 THEN 1 ELSE 0)
    IN  [value |-> <<(y1 + Digit) % Digit, (y2 + Digit) % Digit,
                     (y3 + Digit) % Digit, (y4 + Digit) % Digit, (y5 + 16) % 16>>,
         overflow |-> y5 < 0]

\* min(a, n) for 0 <= n < 2^30: how far skip(a) or take(a) gets in n samples
U64Min(a, n) ==
    IF a[3] = 0 /\ a[4] = 0 /\ a[5] = 0 /\ a[1] + a[2] * Digit <= n
    THEN a[1] + a[2] * Digit
    ELSE n

\* audio.rs:153-154, 226-227
\* (ms as usize) * (sample_rate as usize) * (channels as usize) / 1000
MsToSample(ms, sample_rate, channels) ==
    LET r == U64Times(ms, sample_rate)
        c == U64Times(r.value, channels)
    IN  [value |-> U64Div(c.value, 1000), overflow |-> r.overflow \/ c.overflow]

\* audio.rs:153-160  source.skip(start_sample).take(end_sample - start_sample) on
\* a clip of len samples: the first sample taken (counted from 0), how many are
\* taken, and whether one of the three operations overflowed
TrimRange(len, start_ms, end_ms, sample_rate, channels) ==
    LET start_sample == MsToSample(start_ms, sample_rate, channels)
        end_sample == MsToSample(end_ms, sample_rate, channels)
        n == U64Minus(end_sample.value, start_sample.value)
        first == U64Min(start_sample.value, len)
    IN  [first |-> first, count |-> U64Min(n.value, len - first),
         overflow |-> start_sample.overflow \/ end_sample.overflow \/ n.overflow]

\* ---------------------------------------------------------------- uuid_simple
\* {:x}: the hexadecimal digits of n, most significant first, without padding
RECURSIVE Hex(_)
Hex(n) == IF n < 16 THEN <<n>> ELSE Append(Hex(n \div 16), n % 16)
\* {:04x} of n < 65536: padded with zeros to four digits
Hex4(n) == <<n \div 4096, (n \div 256) % 16, (n \div 16) % 16, n % 16>>

\* audio.rs:108-115  format!("{:x}{:04x}", d.as_secs(), d.subsec_millis()) at
\* the instant t (milliseconds since the epoch)
uuid_simple(t) == Hex(t \div 1000) \o Hex4(t % 1000)

\* audio.rs:127, 167  format!("{}.{}", id, ext)
Filename(id, ext) == [stem |-> id, ext |-> ext]

\* a resampler whose ratio is dst_rate / src_rate
ResampleLenInverse(n, src_rate, dst_rate) ==
    AsUsize(FDiv(F64(n), FDiv(F64(dst_rate), F64(src_rate))))

\* audio.rs:448-449  ratio = src_rate as f64 / dst_rate as f64 and
\* out_len = (chan_converted.len() as f64 / ratio) as usize
ResampleLen(n, src_rate, dst_rate) ==
    AsUsize(FDiv(F64(n), FDiv(F64(src_rate), F64(dst_rate))))

\* an output loop that runs over 1..=out_len
ResampleIndexAhead(i, ratio) == AsUsize(FMul(F64(i + 1), ratio))

\* audio.rs:452-453  src_pos = i as f64 * ratio and idx = src_pos as usize, for
\* the f64 ratio of audio.rs:448
ResampleIndex(i, ratio) == AsUsize(FMul(F64(i), ratio))

\* audio.rs:451-458  one output sample of the linear interpolation.  The source
\* position is taken as the fraction i * src_rate / dst_rate: idx is its
\* integer part and frac is ((i * src_rate) % dst_rate) / dst_rate.

ResampleAt(cc, i, src_rate, dst_rate) ==
    LET pos == i * src_rate
        k == pos \div dst_rate
        fracNum == pos % dst_rate
        s0 == IF k + 1 <= Len(cc) THEN cc[k + 1] ELSE 0
        s1 == IF k + 2 <= Len(cc) THEN cc[k + 2] ELSE s0
    IN  s0 + ((s1 - s0) * fracNum) \div dst_rate

\* a converter without the comparison of the rates, and whose source position
\* is one output sample ahead
ResampleAhead(cc, src_rate, dst_rate) ==
    [j \in 1..ResampleLen(Len(cc), src_rate, dst_rate) |->
        ResampleAt(cc, j, src_rate, dst_rate)]

Resample(cc, src_rate, dst_rate) ==
    IF src_rate # dst_rate
    THEN [j \in 1..ResampleLen(Len(cc), src_rate, dst_rate) |->
            ResampleAt(cc, j - 1, src_rate, dst_rate)]
    ELSE cc

\* audio.rs:427-462  `resampled`: what play_sound pushes for a decoded file
Converted(d, f) ==
    Resample(ChannelConvert(d.raw, d.channels, f.channels),
             d.sample_rate, f.sample_rate)

\* --------------------------------------------------------------- pipeline

\* audio.rs:324-415  AudioPipeline::start on devices that are enumerated
StartOk(input, output) == input \in InputDevices /\ output \in OutputDevices

NoSample == [v |-> 0, call |-> 0, k |-> 0]
NoConv == [stage |-> "none"]

\* A stored file: the source it was made from, the part of its samples it was
\* to hold (first = count = 0 for a verbatim copy) and whether all of it was
\* written
Whole(src) == [source |-> src, first |-> 0, count |-> 0, complete |-> TRUE]
Put(dir, name, content) ==
    {f \in dir : f.name # name} \cup {[name |-> name, content |-> content]}
Remove(dir, name) == {f \in dir : f.name # name}
Exists(dir, name) == \E f \in dir : f.name = name

\* The entry of a sound imported from "kick.wav" at the instant t
OldEntry(t) ==
    [id |-> uuid_simple(t), filename |-> Filename(uuid_simple(t), "wav"),
     display_name |-> "Kick"]
OldLibrary(n) == [i \in 1..n |-> OldEntry(OldInstants[i])]

NoReturn == [cmd |-> "none", status |-> "none"]

\* state.rs:53-97, profile::load_state  the library and the key sounds as
\* state.json held them, and the files of the library in sounds_dir()
InitLibrary(lib, keys) ==
    /\ sound_library = lib
    /\ key_sounds = keys
    /\ storage = {[name |-> lib[i].filename,
                   content |-> Whole([stem |-> "kick", ext |-> "wav"])] :
                      i \in 1..Len(lib)}
    /\ persisted = [sound_library |-> lib, key_sounds |-> keys]
    /\ now = FirstInstant
    /\ nImports = 0
    /\ lret = NoReturn

\* ------------------------------------------------------------------ key map
\* state.rs:103-105  the pad has eight keys
NumKeys == 8
\* lib.rs:202  Ctrl+Alt+Shift+1
INTERNAL_KEYCODE_BASE == 1822

\* lib.rs:204-206
internal_keycode_for_key(led_index) == INTERNAL_KEYCODE_BASE + led_index
\* lib.rs:208-210
is_internal_keycode(keycode) ==
    keycode >= INTERNAL_KEYCODE_BASE /\ keycode < INTERNAL_KEYCODE_BASE + 8
\* lib.rs:214-216  top row direct, bottom row reversed
led_to_keymap_index(led_idx) == IF led_idx < 4 THEN led_idx ELSE 11 - led_idx
\* lib.rs:150-156
keymap_to_led_index(keymap_idx) ==
    IF keymap_idx < 4 THEN keymap_idx ELSE 11 - keymap_idx

\* The key_index of the keys 1 .. MaxKeys of the model: keys of the top row
\* and of the bottom row
LedIndex == <<0, 5, 3, 6>>
KeyOfLed(led_idx) == CHOOSE k \in 1..Len(LedIndex) : LedIndex[k] = led_idx

\* mods & mask != 0 for the masks 0x11, 0x22, 0x44, 0x88: the left or the
\* right modifier of bit b
ModBit(mods, b) ==
    (mods \div (2 ^ b)) % 2 = 1 \/ (mods \div (2 ^ (b + 4))) % 2 = 1

\* Option<String>::None of the two conversions: a shortcut string is never
\* empty
NoShortcut == ""

Letters ==
    <<"A", "B", "C", "D", "E", "F", "G", "H", "I", "J", "K", "L", "M", "N",
      "O", "P", "Q", "R", "S", "T", "U", "V", "W", "X", "Y", "Z">>
Digits == <<"1", "2", "3", "4", "5", "6", "7", "8", "9">>
FKeys == <<"1", "2", "3", "4", "5", "6", "7", "8", "9", "10", "11", "12">>

\* lib.rs:45-54, 78-87  key_name of the basic keycode; NoShortcut stands for
\* the arm that returns None
KeyName(basic, letter, digit) ==
    IF basic >= 4 /\ basic <= 29 THEN letter \o Letters[basic - 3]
    ELSE IF basic >= 30 /\ basic <= 38 THEN digit \o Digits[basic - 29]
    ELSE IF basic = 39 THEN digit \o "0"
    ELSE IF basic = 40 THEN "Enter"
    ELSE IF basic = 41 THEN "Escape"
    ELSE IF basic = 44 THEN "Space"
    ELSE IF basic >= 58 /\ basic <= 69 THEN "F" \o FKeys[basic - 57]
    ELSE NoShortcut

\* parts.join("+")
RECURSIVE JoinPlus(_)
JoinPlus(parts) ==
    IF Len(parts) = 1 THEN parts[1]
    ELSE parts[1] \o "+" \o JoinPlus(Tail(parts))

\* lib.rs:25-58  "Ctrl+Alt+M", the string the shortcut is registered with
qmk_keycode_to_shortcut(keycode) ==
    LET mods == keycode \div 256
        basic == keycode % 256
        key_name == KeyName(basic, "", "")
        parts == (IF ModBit(mods, 0) THEN <<"Ctrl">> ELSE <<>>)
                 \o (IF ModBit(mods, 1) THEN <<"Shift">> ELSE <<>>)
                 \o (IF ModBit(mods, 2) THEN <<"Alt">> ELSE <<>>)
                 \o (IF ModBit(mods, 3) THEN <<"Super">> ELSE <<>>)
    IN  IF mods = 0 \/ basic = 0 \/ key_name = NoShortcut THEN NoShortcut
        ELSE JoinPlus(Append(parts, key_name))

\* lib.rs:63-91  "control+alt+KeyM", format!("{}", shortcut) in the handler
qmk_keycode_to_display(keycode) ==
    LET mods == keycode \div 256
        basic == keycode % 256
        key_name == KeyName(basic, "Key", "Digit")
        parts == (IF ModBit(mods, 1) THEN <<"shift">> ELSE <<>>)
                 \o (IF ModBit(mods, 0) THEN <<"control">> ELSE <<>>)
                 \o (IF ModBit(mods, 2) THEN <<"alt">> ELSE <<>>)
                 \o (IF ModBit(mods, 3) THEN <<"super">> ELSE <<>>)
    IN  IF mods = 0 \/ basic = 0 \/ key_name = NoShortcut THEN NoShortcut
        ELSE JoinPlus(Append(parts, key_name))

\* HashMap::insert: the entry of the same display string is replaced
MapInsert(map, entry) ==
    {e \in map : e.display # entry.display} \cup {entry}

\* lib.rs:172-193  the loop of register_key_shortcuts from keymap index i on:
\* acc holds shortcut_map and the shortcuts registered so far.  register fails
\* for a shortcut that is registered already.
RECURSIVE RegisterFrom(_, _, _)
RegisterFrom(maps, i, acc) ==
    IF i >= NumKeys THEN acc
    ELSE LET keycode == maps[i + 1]
             shortcut_str == qmk_keycode_to_shortcut(keycode)
             display_str == qmk_keycode_to_display(keycode)
             entry == [display |-> display_str,
                       led_idx |-> keymap_to_led_index(i),
                       keycode |-> keycode, shortcut_str |-> shortcut_str]
         IN  IF shortcut_str = NoShortcut \/ shortcut_str \in acc[2]
             THEN RegisterFrom(maps, i + 1, acc)
             ELSE RegisterFrom(maps, i + 1,
                               <<MapInsert(acc[1], entry),
                                 acc[2] \cup {shortcut_str}>>)

\* lib.rs:160-195  register_key_shortcuts: unregister_all, shortcut_map.clear(),
\* then the loop
register_key_shortcuts(maps) ==
    LET acc == RegisterFrom(maps, 0, <<{}, {}>>)
    IN  [shortcut_map |-> acc[1], registered |-> acc[2]]

\* state.rs:119  keymaps: [0u16; 8]
KeymapsDefault == [i \in 1..NumKeys |-> 0]

\* state.rs:119, 123  the key map of an application that has read no device
\* yet, and no shortcut
InitKeymap ==
    /\ keymaps = KeymapsDefault
    /\ userSet = [i \in 1..NumKeys |-> FALSE]
    /\ shortcut_map = {}
    /\ registered = {}

\* The threads the shortcut handler spawns to replay a keystroke
ReplayThreads == {"r1", "r2"}
NoEntry == [display |-> NoShortcut, led_idx |-> NumKeys, keycode |-> 0,
            shortcut_str |-> NoShortcut]
\* A thread outside do_toggle_key.  key: key_index; filename, found: the sound
\* of the key and whether resolve_sound_path found its file; calls: nCalls when
\* the slot was checked; seen: what the slot held then; pipeline: calls of
\* play_sound under the guard; fallback: calls of
\* preview_trim and the result of the last; entry: the shortcut_map entry of
\* the handler that called, NoEntry for another caller
IdleToggle ==
    [pc |-> "idle", key |-> NumKeys, filename |-> None, found |-> FALSE,
     calls |-> 0, seen |-> 0, pipeline |-> 0, fallback |-> 0,
     fallbackRet |-> "none",
     entry |-> NoEntry]
IdleReplay == [pc |-> "idle", keycode |-> 0, register_str |-> NoShortcut]

\* state.rs:27-50, 112-125  every key on slot A, nobody in do_toggle_key, no
\* shortcut event
InitPress ==
    /\ active_slot = [k \in Keys |-> "A"]
    /\ tog = [t \in AppThreads |-> IdleToggle]
    /\ nPress = 0
    /\ replay = [r \in ReplayThreads |-> IdleReplay]
    /\ events = <<>>
    /\ emitted = <<>>

\* state.rs:37-38  the colours of KeyConfig::default, and one the user picks
Green == [h |-> 85, s |-> 255, v |-> 120]
Red == [h |-> 0, s |-> 255, v |-> 120]
Blue == [h |-> 170, s |-> 255, v |-> 200]
\* state.rs:35-44  KeyConfig::default() without its active_slot
KeyConfigDefault == [slot_a |-> Green, slot_b |-> Red, override_enabled |-> FALSE]
\* A key of the pad whose override is off and that was sent no colour
LedOff == [enabled |-> FALSE, h |-> 0, s |-> 0, v |-> 0]

\* hid.rs:44-49  set_key_color sends three reports, enable override, set color
\* (H+S) and set brightness (V), and stops at the first that cannot be written:
\* the pad's key after the first `written' of them
Reports == 0..3
\* a sequence without its third report: the brightness is never sent
SendKeyColorNoBrightness(led, color, written) ==
    [enabled |-> IF written >= 1 THEN TRUE ELSE led.enabled,
     h |-> IF written >= 2 THEN color.h ELSE led.h,
     s |-> IF written >= 2 THEN color.s ELSE led.s,
     v |-> led.v]
SendKeyColor(led, color, written) ==
    [enabled |-> IF written >= 1 THEN TRUE ELSE led.enabled,
     h |-> IF written >= 2 THEN color.h ELSE led.h,
     s |-> IF written >= 2 THEN color.s ELSE led.s,
     v |-> IF written >= 3 THEN color.v ELSE led.v]
\* hid.rs:52-55  disable_override sends one report
DisableOverride(led, written) ==
    IF written >= 1 THEN [led EXCEPT !.enabled = FALSE] ELSE led
\* lib.rs:222-225  the colour of the key's active slot
ActiveColor(key, active) == IF active = "A" THEN key.slot_a ELSE key.slot_b
\* lib.rs:221-238  apply_key_to_device: the pad's key afterwards
apply_key_to_device(led, key, active, written) ==
    IF key.override_enabled
    THEN SendKeyColor(led, ActiveColor(key, active), written)
    ELSE DisableOverride(led, written)
\* lib.rs:228-230, 234-236  the Err that apply_key_to_device logs
ApplyFailed(key, written) ==
    IF key.override_enabled THEN written < 3 ELSE written < 1
\* lib.rs:248-252  apply_all_to_device: every key, each with its own outcome
apply_all_to_device(leds, cfg, slots, w) ==
    [k \in Keys |-> apply_key_to_device(leds[k], cfg[k], slots[k], w[k])]

\* lib.rs:1093-1099  the two mutexes are free and no thread runs a routine
\* mutex[m] when no thread owns m (the threads are 1 .. MaxThreads)
Free == 0
IdleThread == [routine |-> "none", at |-> 0, held |-> <<>>]
LockThreads == 1..MaxThreads
InitLocks ==
    /\ mutex = [state |-> Free, slot |-> Free]
    /\ lk = [t \in LockThreads |-> IdleThread]

\* state.rs:112-125  no pad connected; cfg is the key configuration that
\* profile::load_state read (lib.rs:1049-1056), leds and maps are what the pad
\* holds
InitDevice(cfg, leds, maps) ==
    /\ keycfg = cfg
    /\ global_slot = "A"
    /\ device = FALSE
    /\ devKeys = leds
    /\ devKeymaps = maps
    /\ ledFailed = FALSE
    /\ nEdits = 0
InitDev ==
    InitDevice([k \in Keys |-> KeyConfigDefault], [k \in Keys |-> LedOff],
               KeymapsDefault)

\* keyboard_hook.rs:12-13  the two mechanisms that see a keystroke
Detectors == {"hook", "raw"}
NoLock == "none"
IdleDetector ==
    [pc |-> "idle", key |-> 0, now |-> 0, read |-> FALSE, toggled |-> FALSE,
     refused |-> FALSE, ret |-> "none"]
\* keyboard_hook.rs:181-190  what a ShortcutEntry of a key can be
EntryKinds == {"none", "user", "internal"}

\* GetTickCount64() when the application starts
FirstTick == 1000

\* keyboard_hook.rs:34-37, 194-203  LAST_TOGGLE is all 0, HOOK_STATE is
\* unlocked, and register_shortcuts has stored the entries `entries`
InitKeyboard(entries) ==
    /\ tick = FirstTick
    /\ LAST_TOGGLE = [k \in Keys |-> 0]
    /\ hookLock = NoLock
    /\ shortcuts = entries
    /\ det = [d \in Detectors |-> IdleDetector]
    /\ stroke = [n |-> 0, key |-> 0, spawned |-> 0]
    /\ regpc = "idle"

InitKeys ==
    /\ InitKeyboard([k \in Keys |-> "none"])
    /\ InitKeymap
    /\ InitPress
    /\ InitDev
    /\ InitLocks

InitOffline ==
    /\ conv = NoConv
    /\ InitLibrary(<<>>, [k \in Keys |-> None])
    /\ InitKeys

NoLocal == [input |-> Unset, output |-> Unset, mic_vol |-> 0, sound_vol |-> 0, id |-> 0]

\* A pipeline of format f that the startup auto-start has started and stored in
\* the slot, with the volumes of a configuration that never changed them
InitPipeline(f) ==
    /\ alive = TRUE
    /\ fmt = f
    /\ inputOn = TRUE
    /\ capBuf = <<>>
    /\ injBuf = <<>>
    /\ micVol = default_volume
    /\ sndVol = default_volume
    /\ prodLock = NoThread
    /\ cbData = <<>>
    /\ out = [sample |-> 0, inj |-> NoSample]
    /\ pc = [t \in AppThreads |-> "idle"]
    /\ clip = [t \in AppThreads |-> <<>>]
    /\ idx = [t \in AppThreads |-> 0]
    /\ call = [t \in AppThreads |-> 0]
    /\ ret = [t \in AppThreads |-> "none"]
    /\ nCalls = 0
    /\ monitors = [running |-> 0, gaveUp |-> FALSE]
    /\ slot = 1
    /\ pipes = {1}
    /\ audio_config = [audio_input_device |-> "Mic",
                       audio_output_device |-> "CABLE Input",
                       mic_volume |-> micVol, sound_volume |-> sndVol,
                       soundboard_enabled |-> TRUE]
    /\ cpc = [c \in CmdThreads |-> "idle"]
    /\ local = [c \in CmdThreads |-> NoLocal]
    /\ nCmds = 1
    /\ overlap = FALSE

Init == \E input \in InputDevices : InitPipeline(InputConfig(input)) /\ InitOffline

\* audio.rs:371-375  the input callback: try_push of every sample of `data`
Chunks == UNION {[1..n -> MicSamples] : n \in 1..MaxChunk}

CapturePush(s) == capBuf' = TryPush(capBuf, CaptureCapacity(fmt), s)

InputCallback(data) ==
    /\ alive /\ inputOn /\ cbData = <<>>
    /\ CapturePush(Head(data))
    /\ cbData' = Tail(data)
    /\ UNCHANGED <<alive, fmt, inputOn, injBuf, micVol, sndVol, prodLock, out,
                   pc, clip, idx, call, ret, nCalls, monitors>>
    /\ UNCHANGED <<lifeVars, offlineVars>>

InputCallbackNext ==
    /\ alive /\ cbData # <<>>
    /\ CapturePush(Head(cbData))
    /\ cbData' = Tail(cbData)
    /\ UNCHANGED <<alive, fmt, inputOn, injBuf, micVol, sndVol, prodLock, out,
                   pc, clip, idx, call, ret, nCalls, monitors>>
    /\ UNCHANGED <<lifeVars, offlineVars>>

\* audio.rs:376-378  the host reports a stream error: it is logged, and the
\* stream delivers no more data
InputStreamError ==
    /\ alive /\ inputOn
    /\ inputOn' = FALSE
    /\ UNCHANGED <<alive, fmt, capBuf, injBuf, micVol, sndVol, prodLock, cbData,
                   out, pc, clip, idx, call, ret, nCalls, monitors>>
    /\ UNCHANGED <<lifeVars, offlineVars>>

\* a mixer that applies each volume to the other source
MixSwapped(mic_sample, vol, sound_sample, svol) == mic_sample * svol + sound_sample * vol

\* audio.rs:272-281  MicSource::next
Mix(mic_sample, vol, sound_sample, svol) == mic_sample * vol + sound_sample * svol

\* a consumer that takes the producer's mutex before it pops
MicSourceNextLocking ==
    /\ alive
    /\ prodLock = NoThread
    /\ capBuf' = PopRest(capBuf)
    /\ injBuf' = PopRest(injBuf)
    /\ out' = [sample |-> Mix(PopValue(capBuf), micVol,
                              (IF injBuf = <<>> THEN 0 ELSE Head(injBuf).v), sndVol),
               inj |-> IF injBuf = <<>> THEN NoSample ELSE Head(injBuf)]
    /\ UNCHANGED <<alive, fmt, inputOn, micVol, sndVol, prodLock, cbData,
                   pc, clip, idx, call, ret, nCalls, monitors>>
    /\ UNCHANGED <<lifeVars, offlineVars>>

MicSourceNext ==
    /\ alive
    /\ capBuf' = PopRest(capBuf)
    /\ injBuf' = PopRest(injBuf)
    /\ out' = [sample |-> Mix(PopValue(capBuf), micVol,
                              (IF injBuf = <<>> THEN 0 ELSE Head(injBuf).v), sndVol),
               inj |-> IF injBuf = <<>> THEN NoSample ELSE Head(injBuf)]
    /\ UNCHANGED <<alive, fmt, inputOn, micVol, sndVol, prodLock, cbData,
                   pc, clip, idx, call, ret, nCalls, monitors>>
    /\ UNCHANGED <<lifeVars, offlineVars>>

\* a setter that stores into the other cell
SetMicVolumeWrongCell(v) ==
    /\ alive
    /\ sndVol' = v
    /\ UNCHANGED <<alive, fmt, inputOn, capBuf, injBuf, micVol, prodLock, cbData,
                   out, pc, clip, idx, call, ret, nCalls, monitors>>
    /\ UNCHANGED <<lifeVars, offlineVars>>

\* audio.rs:493-499
SetMicVolume(v) ==
    /\ alive
    /\ micVol' = v
    /\ UNCHANGED <<alive, fmt, inputOn, capBuf, injBuf, sndVol, prodLock, cbData,
                   out, pc, clip, idx, call, ret, nCalls, monitors>>
    /\ UNCHANGED <<lifeVars, offlineVars>>

SetSoundVolume(v) ==
    /\ alive
    /\ sndVol' = v
    /\ UNCHANGED <<alive, fmt, inputOn, capBuf, injBuf, micVol, prodLock, cbData,
                   out, pc, clip, idx, call, ret, nCalls, monitors>>
    /\ UNCHANGED <<lifeVars, offlineVars>>

\* a play_sound that starts the monitoring thread before it opens the file
PlaySoundFailAfterSpawn(t, p) ==
    /\ alive /\ pc[t] = "idle"
    /\ p \in BadPaths
    /\ ret' = [ret EXCEPT ![t] = "Err"]
    /\ monitors' = [monitors EXCEPT !.running = @ + 1]
    /\ UNCHANGED <<alive, fmt, inputOn, capBuf, injBuf, micVol, sndVol, prodLock,
                   cbData, out, pc, clip, idx, call, nCalls>>
    /\ UNCHANGED <<lifeVars, offlineVars>>

\* audio.rs:421-425  File::open or Decoder::new fails: `?` returns the error
PlaySoundFail(t, p) ==
    /\ alive /\ pc[t] = "idle"
    /\ p \in BadPaths
    /\ ret' = [ret EXCEPT ![t] = "Err"]
    /\ UNCHANGED <<alive, fmt, inputOn, capBuf, injBuf, micVol, sndVol, prodLock,
                   cbData, out, pc, clip, idx, call, nCalls, monitors>>
    /\ UNCHANGED <<lifeVars, offlineVars>>

\* audio.rs:427-462  the decoder yielded d: collect its samples and convert them
PlaySoundDecoded(t, d) ==
    /\ alive /\ pc[t] = "idle"
    /\ nCalls < MaxPlays
    /\ nCalls' = nCalls + 1
    /\ call' = [call EXCEPT ![t] = nCalls + 1]
    /\ clip' = [clip EXCEPT ![t] = Converted(d, fmt)]
    /\ idx' = [idx EXCEPT ![t] = 1]
    /\ ret' = [ret EXCEPT ![t] = "none"]
    /\ pc' = [pc EXCEPT ![t] = "lock"]
    /\ UNCHANGED <<alive, fmt, inputOn, capBuf, injBuf, micVol, sndVol, prodLock,
                   cbData, out, monitors>>
    /\ UNCHANGED <<lifeVars, offlineVars>>

\* audio.rs:421-425  File::open and Decoder::new succeed on the file at p
PlaySoundDecode(t, p) ==
    /\ p \in GoodPaths
    /\ PlaySoundDecoded(t, Decoded(p))

\* a play_sound that pushes without waiting for the producer's mutex
PlaySoundLockNoMutex(t) ==
    /\ pc[t] = "lock"
    /\ prodLock' = t
    /\ pc' = [pc EXCEPT ![t] = "push"]
    /\ UNCHANGED <<alive, fmt, inputOn, capBuf, injBuf, micVol, sndVol, cbData,
                   out, clip, idx, call, ret, nCalls, monitors>>
    /\ UNCHANGED <<lifeVars, offlineVars>>

\* audio.rs:465  self.sound_producer.lock()
PlaySoundLock(t) ==
    /\ pc[t] = "lock"
    /\ prodLock = NoThread
    /\ prodLock' = t
    /\ pc' = [pc EXCEPT ![t] = "push"]
    /\ UNCHANGED <<alive, fmt, inputOn, capBuf, injBuf, micVol, sndVol, cbData,
                   out, clip, idx, call, ret, nCalls, monitors>>
    /\ UNCHANGED <<lifeVars, offlineVars>>

\* a push loop that waits for room in the injection buffer
PlaySoundPushBlocking(t) ==
    /\ pc[t] = "push"
    /\ idx[t] <= Len(clip[t])
    /\ Len(injBuf) < InjectionCapacity(fmt)
    /\ injBuf' = Append(injBuf, [v |-> clip[t][idx[t]], call |-> call[t], k |-> idx[t]])
    /\ idx' = [idx EXCEPT ![t] = idx[t] + 1]
    /\ UNCHANGED <<alive, fmt, inputOn, capBuf, micVol, sndVol, prodLock, cbData,
                   out, pc, clip, call, ret, nCalls, monitors>>
    /\ UNCHANGED <<lifeVars, offlineVars>>

\* audio.rs:466-468  one turn of the push loop
PlaySoundPush(t) ==
    /\ pc[t] = "push"
    /\ idx[t] <= Len(clip[t])
    /\ injBuf' = TryPush(injBuf, InjectionCapacity(fmt),
                         [v |-> clip[t][idx[t]], call |-> call[t], k |-> idx[t]])
    /\ idx' = [idx EXCEPT ![t] = idx[t] + 1]
    /\ UNCHANGED <<alive, fmt, inputOn, capBuf, micVol, sndVol, prodLock, cbData,
                   out, pc, clip, call, ret, nCalls, monitors>>
    /\ UNCHANGED <<lifeVars, offlineVars>>

\* audio.rs:473  the guard goes out of scope
PlaySoundUnlock(t) ==
    /\ pc[t] = "push"
    /\ idx[t] > Len(clip[t])
    /\ prodLock' = NoThread
    /\ pc' = [pc EXCEPT ![t] = "spawn"]
    /\ UNCHANGED <<alive, fmt, inputOn, capBuf, injBuf, micVol, sndVol, cbData,
                   out, clip, idx, call, ret, nCalls, monitors>>
    /\ UNCHANGED <<lifeVars, offlineVars>>

\* audio.rs:477-490  spawn the monitoring thread and return Ok
PlaySoundReturn(t) ==
    /\ pc[t] = "spawn"
    /\ monitors' = [monitors EXCEPT !.running = @ + 1]
    /\ ret' = [ret EXCEPT ![t] = "Ok"]
    /\ pc' = [pc EXCEPT ![t] = "idle"]
    /\ clip' = [clip EXCEPT ![t] = <<>>]
    /\ idx' = [idx EXCEPT ![t] = 0]
    /\ call' = [call EXCEPT ![t] = 0]
    /\ UNCHANGED <<alive, fmt, inputOn, capBuf, injBuf, micVol, sndVol, prodLock,
                   cbData, out, nCalls>>
    /\ UNCHANGED <<lifeVars, offlineVars>>

\* audio.rs:479-488  the detached monitoring thread: it gives up when the default
\* output cannot be opened, and otherwise plays the file to its end
MonitorThread(opened) ==
    /\ monitors.running > 0
    /\ monitors' = [running |-> monitors.running - 1,
                    gaveUp |-> monitors.gaveUp \/ ~opened]
    /\ UNCHANGED <<alive, fmt, inputOn, capBuf, injBuf, micVol, sndVol, prodLock,
                   cbData, out, pc, clip, idx, call, ret, nCalls>>
    /\ UNCHANGED <<lifeVars, offlineVars>>

\* lib.rs:992-997  do_toggle_key holds the guard of the slot's mutex from its
\* check of the slot to the end of the branch that calls play_sound
SlotLockFree == \A t \in AppThreads : tog[t].pc # "play"

\* Drop of the AudioPipeline (lib.rs:692 `*pl = None`): both streams close and the
\* ring buffers go with them.  No play_sound call borrows the pipeline then.
DropPipeline ==
    /\ alive
    /\ \A t \in AppThreads : pc[t] = "idle"
    /\ SlotLockFree
    /\ cbData = <<>>
    /\ alive' = FALSE
    /\ capBuf' = <<>>
    /\ injBuf' = <<>>
    /\ slot' = 0
    /\ pipes' = pipes \ {slot}
    /\ UNCHANGED <<fmt, inputOn, micVol, sndVol, prodLock, cbData, out,
                   pc, clip, idx, call, ret, nCalls, monitors>>
    /\ UNCHANGED <<audio_config, cpc, local, nCmds, overlap>>
    /\ UNCHANGED offlineVars

\* ------------------------------------------------- the pipeline slot (lib.rs)

audioVars == <<alive, fmt, inputOn, capBuf, injBuf, micVol, sndVol, prodLock,
               cbData, out, pc, clip, idx, call, ret, nCalls, monitors>>

\* The entry of try_auto_start_pipeline, call number nCmds + 1 on thread c
EnterAutoStart(c) ==
    /\ cpc[c] = "idle"
    /\ nCmds < MaxCmds
    /\ nCmds' = nCmds + 1
    /\ overlap' = (overlap \/ \E d \in CmdThreads \ {c} : cpc[d] # "idle")
    /\ cpc' = [cpc EXCEPT ![c] = "stop"]
    /\ local' = [local EXCEPT ![c] = [NoLocal EXCEPT !.id = nCmds + 1]]

\* lib.rs:1109-1114  the setup hook's auto-start, before any command
SetupAutoStart(c) ==
    /\ nCmds = 0
    /\ EnterAutoStart(c)
    /\ UNCHANGED <<audioVars, slot, pipes, audio_config>>
    /\ UNCHANGED offlineVars

\* lib.rs:732-745
SetAudioInputDevice(c, name) ==
    /\ nCmds > 0
    /\ EnterAutoStart(c)
    /\ audio_config' = [audio_config EXCEPT !.audio_input_device = name]
    /\ UNCHANGED <<audioVars, slot, pipes>>
    /\ UNCHANGED offlineVars

\* lib.rs:747-760
SetAudioOutputDevice(c, name) ==
    /\ nCmds > 0
    /\ EnterAutoStart(c)
    /\ audio_config' = [audio_config EXCEPT !.audio_output_device = name]
    /\ UNCHANGED <<audioVars, slot, pipes>>
    /\ UNCHANGED offlineVars

\* lib.rs:688-695  under the slot's mutex: the pipeline the slot holds is dropped
StopExisting(c) ==
    /\ cpc[c] = "stop"
    /\ \A t \in AppThreads : pc[t] = "idle"
    /\ SlotLockFree
    /\ cbData = <<>>
    /\ slot' = 0
    /\ pipes' = pipes \ {slot}
    /\ alive' = FALSE
    /\ capBuf' = <<>>
    /\ injBuf' = <<>>
    /\ cpc' = [cpc EXCEPT ![c] = "read"]
    /\ UNCHANGED <<fmt, inputOn, micVol, sndVol, prodLock, cbData, out,
                   pc, clip, idx, call, ret, nCalls, monitors>>
    /\ UNCHANGED <<audio_config, local, nCmds, overlap>>
    /\ UNCHANGED offlineVars

\* lib.rs:697-716  under the state's mutex: return unless both devices are set
\* and the output is a virtual cable, else copy the devices and the volumes
ReadConfig(c) ==
    /\ cpc[c] = "read"
    /\ IF \/ audio_config.audio_input_device = Unset
          \/ audio_config.audio_output_device = Unset
          \/ ~is_virtual_cable(audio_config.audio_output_device)
       THEN /\ cpc' = [cpc EXCEPT ![c] = "idle"]
            /\ local' = [local EXCEPT ![c] = NoLocal]
       ELSE /\ cpc' = [cpc EXCEPT ![c] = "start"]
            /\ local' = [local EXCEPT ![c] =
                            [input |-> audio_config.audio_input_device,
                             output |-> audio_config.audio_output_device,
                             mic_vol |-> audio_config.mic_volume,
                             sound_vol |-> audio_config.sound_volume,
                             id |-> local[c].id]]
    /\ UNCHANGED <<audioVars, slot, pipes, audio_config, nCmds, overlap>>
    /\ UNCHANGED offlineVars

\* a start that opens the host's default devices when a name is not found
StartPipelineAnyDevice(c, hostOk) ==
    /\ cpc[c] = "start"
    /\ IF hostOk
       THEN /\ pipes' = pipes \cup {local[c].id}
            /\ cpc' = [cpc EXCEPT ![c] = "store"]
            /\ local' = local
       ELSE /\ pipes' = pipes
            /\ cpc' = [cpc EXCEPT ![c] = "idle"]
            /\ local' = [local EXCEPT ![c] = NoLocal]
    /\ UNCHANGED <<audioVars, slot, audio_config, nCmds, overlap>>
    /\ UNCHANGED offlineVars

\* lib.rs:718 and audio.rs:324-415  AudioPipeline::start, with no lock held: Ok
\* with a new pipeline when both devices are found and the host opens both
\* streams, else Err, which is logged
StartPipeline(c, hostOk) ==
    /\ cpc[c] = "start"
    /\ IF StartOk(local[c].input, local[c].output) /\ hostOk
       THEN /\ pipes' = pipes \cup {local[c].id}
            /\ cpc' = [cpc EXCEPT ![c] = "store"]
            /\ local' = local
       ELSE /\ pipes' = pipes
            /\ cpc' = [cpc EXCEPT ![c] = "idle"]
            /\ local' = [local EXCEPT ![c] = NoLocal]
    /\ UNCHANGED <<audioVars, slot, audio_config, nCmds, overlap>>
    /\ UNCHANGED offlineVars

\* lib.rs:719-725  under the slot's mutex: the new pipeline goes into the slot,
\* and what the slot held is dropped by the assignment
StorePipeline(c) ==
    /\ cpc[c] = "store"
    /\ \A t \in AppThreads : pc[t] = "idle"
    /\ SlotLockFree
    /\ cbData = <<>>
    /\ slot' = local[c].id
    /\ pipes' = pipes \ {slot}
    /\ audio_config' = [audio_config EXCEPT !.soundboard_enabled = TRUE]
    /\ alive' = TRUE
    /\ fmt' = InputConfig(local[c].input)
    /\ inputOn' = TRUE
    /\ capBuf' = <<>>
    /\ injBuf' = <<>>
    /\ micVol' = local[c].mic_vol
    /\ sndVol' = local[c].sound_vol
    /\ cpc' = [cpc EXCEPT ![c] = "idle"]
    /\ local' = [local EXCEPT ![c] = NoLocal]
    /\ UNCHANGED <<prodLock, cbData, out, pc, clip, idx, call, ret, nCalls,
                   monitors, nCmds, overlap>>
    /\ UNCHANGED offlineVars

\* ----------------------------------------------------------- specifications

\* audio.rs:371-378  the input stream's two callbacks
Capture ==
    \/ \E data \in Chunks : InputCallback(data)
    \/ InputCallbackNext
    \/ InputStreamError

\* audio.rs:493-499  the volume setters, from any thread
Volumes ==
    \/ \E v \in Vols : SetMicVolume(v)
    \/ \E v \in Vols : SetSoundVolume(v)

\* audio.rs:417-491  play_sound called by thread t on one of `files` or on a bad path
PlaySound(t, files) ==
    \/ \E p \in BadPaths : PlaySoundFail(t, p)
    \/ \E p \in files : PlaySoundDecode(t, p)
    \/ PlaySoundLock(t)
    \/ PlaySoundPush(t)
    \/ PlaySoundUnlock(t)
    \/ PlaySoundReturn(t)

Monitor == \E opened \in BOOLEAN : MonitorThread(opened)

\* A running pipeline with every callback and setter, one caller of play_sound,
\* short clips and a default output that opens
Next ==
    \/ Capture
    \/ MicSourceNext
    \/ Volumes
    \/ PlaySound("t1", {"short"})
    \/ MonitorThread(TRUE)
    \/ DropPipeline

Spec == Init /\ [][Next]_vars

\* play_sound's steps after the decision to return an error or to go on
PlaySoundRest(t) ==
    \/ PlaySoundLock(t)
    \/ PlaySoundPush(t)
    \/ PlaySoundUnlock(t)
    \/ PlaySoundReturn(t)

\* The injection path: concurrent callers of play_sound, the mixer draining
\* the injection buffer
NextInject ==
    \/ MicSourceNext
    \/ \E t \in AppThreads : PlaySound(t, {"short"})
    \/ Monitor
    \/ DropPipeline

SpecInject == Init /\ [][NextInject]_vars

\* The same with the output stream pulling for as long as the pipeline exists
FairInject == SpecInject /\ WF_vars(MicSourceNext)

\* The long clip is played first, short clips after it
PlayLongFirst(t) ==
    \/ \E p \in GoodPaths : (p = "long" => nCalls = 0) /\ PlaySoundDecode(t, p)
    \/ PlaySoundRest(t)

\* Overrun of both ring buffers: one clip longer than the injection buffer and
\* input callbacks that deliver more than the capture buffer holds
NextOverflow ==
    \/ \E data \in Chunks : InputCallback(data)
    \/ InputCallbackNext
    \/ MicSourceNext
    \/ nCalls = 0 /\ PlaySoundDecode("t1", "long")
    \/ PlaySoundRest("t1")

SpecOverflow == Init /\ [][NextOverflow]_vars

\* One caller of play_sound with its monitoring threads: good and bad files,
\* clips that fit and a clip that does not
NextPlay ==
    \/ MicSourceNext
    \/ \E p \in BadPaths : PlaySoundFail("t1", p)
    \/ PlayLongFirst("t1")
    \/ Monitor

SpecPlay == Init /\ [][NextPlay]_vars

\* The input stream of a stereo pipeline fails at some moment, while the mixer
\* pulls, the volumes are set and one clip is played
InitSilence == InitPipeline([channels |-> 2, sample_rate |-> 1]) /\ InitOffline

NextSilence ==
    \/ Capture
    \/ MicSourceNext
    \/ Volumes
    \/ nCalls = 0 /\ PlaySoundDecode("t1", "short")
    \/ PlaySoundRest("t1")

SpecSilence == InitSilence /\ [][NextSilence]_vars

\* The same with the output stream pulling for as long as the pipeline exists
FairSilence == SpecSilence /\ WF_vars(MicSourceNext)

\* The converter: clips of every channel count and rate played into pipelines
\* of every format
InitConv == \E f \in InputFormats : InitPipeline(f) /\ InitOffline

PlayClip(t) ==
    \/ \E d \in Clips : PlaySoundDecoded(t, d)
    \/ PlaySoundRest(t)

NextConv == PlayClip("t1") \/ MicSourceNext

SpecConv == InitConv /\ [][NextConv]_vars

\* One clip of any channel count and rate, played into a pipeline of any format
PlayOneClip(t) ==
    \/ \E d \in Clips : nCalls = 0 /\ PlaySoundDecoded(t, d)
    \/ PlaySoundRest(t)

NextOneClip == PlayOneClip("t1") \/ MicSourceNext

SpecOneClip == InitConv /\ [][NextOneClip]_vars

\* lib.rs:1100  the slot is created empty; the configuration is what state.json
\* held
InitSlot ==
    /\ alive = FALSE
    /\ fmt = InputConfig("Mic")
    /\ inputOn = FALSE
    /\ capBuf = <<>>
    /\ injBuf = <<>>
    /\ micVol \in Vols
    /\ sndVol \in Vols
    /\ prodLock = NoThread
    /\ cbData = <<>>
    /\ out = [sample |-> 0, inj |-> NoSample]
    /\ pc = [t \in AppThreads |-> "idle"]
    /\ clip = [t \in AppThreads |-> <<>>]
    /\ idx = [t \in AppThreads |-> 0]
    /\ call = [t \in AppThreads |-> 0]
    /\ ret = [t \in AppThreads |-> "none"]
    /\ nCalls = 0
    /\ monitors = [running |-> 0, gaveUp |-> FALSE]
    /\ slot = 0
    /\ pipes = {}
    /\ \E i \in InputNames \cup {Unset}, o \in OutputNames \cup {Unset} :
          audio_config = [audio_input_device |-> i, audio_output_device |-> o,
                          mic_volume |-> micVol, sound_volume |-> sndVol,
                          soundboard_enabled |-> FALSE]
    /\ cpc = [c \in CmdThreads |-> "idle"]
    /\ local = [c \in CmdThreads |-> NoLocal]
    /\ nCmds = 0
    /\ overlap = FALSE

InitLife == InitSlot /\ InitOffline

\* try_auto_start_pipeline on thread c, from its three callers
AutoStart(c) ==
    \/ SetupAutoStart(c)
    \/ \E name \in InputNames : SetAudioInputDevice(c, name)
    \/ \E name \in OutputNames : SetAudioOutputDevice(c, name)
    \/ StopExisting(c)
    \/ ReadConfig(c)
    \/ \E hostOk \in BOOLEAN : StartPipeline(c, hostOk)
    \/ StorePipeline(c)

\* The pipeline slot under device changes from the command threads
NextLife == \E c \in CmdThreads : AutoStart(c)

SpecLife == InitLife /\ [][NextLife]_vars

\* The channel conversion alone, applied to a mono recording and then to its
\* own output: conv.samples is `chan_converted`, conv.path the channel counts
\* the samples went through.
ConvDecode(d) ==
    /\ conv.stage = "none"
    /\ conv' = [stage |-> "decoded", raw |-> d.raw, samples |-> d.raw,
                path |-> <<d.channels>>, src_rate |-> d.sample_rate]
    /\ UNCHANGED <<audioVars, lifeVars, libVars, keyVars>>

ConvChannels(dst_channels) ==
    /\ conv.stage \in {"decoded", "converted"}
    /\ Len(conv.path) < 3
    /\ conv' = [conv EXCEPT
                 !.stage = "converted",
                 !.samples = ChannelConvert(conv.samples,
                                            conv.path[Len(conv.path)],
                                            dst_channels),
                 !.path = Append(conv.path, dst_channels)]
    /\ UNCHANGED <<audioVars, lifeVars, libVars, keyVars>>

NextRound ==
    \/ \E d \in MonoClips : ConvDecode(d)
    \/ \E dst_channels \in 1..2 : ConvChannels(dst_channels)

SpecRound == Init /\ [][NextRound]_vars

\* audio.rs:447-462  the rate conversion of the channel-converted samples, for a
\* pipeline at dst_rate
ConvResample(dst_rate) ==
    /\ conv.stage = "converted"
    /\ conv' = [stage |-> "resampled", raw |-> conv.raw, path |-> conv.path,
                src_rate |-> conv.src_rate, dst_rate |-> dst_rate,
                chan_len |-> Len(conv.samples),
                samples |-> Resample(conv.samples, conv.src_rate, dst_rate)]
    /\ UNCHANGED <<audioVars, lifeVars, libVars, keyVars>>

\* audio.rs:467-471  the push loop on a buffer with `free` free slots that
\* nobody pops meanwhile: try_push takes a sample while there is room
PushedCount(n, free) == IF n <= free THEN n ELSE free

ConvPush(free) ==
    /\ conv.stage = "resampled"
    /\ conv' = [stage |-> "pushed", raw |-> conv.raw, path |-> conv.path,
                src_rate |-> conv.src_rate, dst_rate |-> conv.dst_rate,
                chan_len |-> conv.chan_len, samples |-> conv.samples,
                free |-> free, pushed |-> PushedCount(Len(conv.samples), free)]
    /\ UNCHANGED <<audioVars, lifeVars, libVars, keyVars>>

\* The whole conversion of play_sound on the recordings at real rates, into
\* an injection buffer that is empty or full
NextRates ==
    \/ \E d \in RateClips : ConvDecode(d)
    \/ \E dst_channels \in 1..2 :
          conv.stage = "decoded" /\ ConvChannels(dst_channels)
    \/ \E dst_rate \in Rates : ConvResample(dst_rate)
    \/ \E full \in BOOLEAN :
          /\ conv.stage = "resampled"
          /\ ConvPush(IF full THEN 0
                      ELSE InjectionCapacity(
                             [channels |-> conv.path[2],
                              sample_rate |-> conv.dst_rate]))

SpecRates == Init /\ [][NextRates]_vars

\* --------------------------------------------------------------- duration

\* What Decoder yields for the files get_audio_duration is given: up to 10 ms
\* of mono or stereo audio, also cut off in the middle of a frame, streams that
\* report no channels or no rate, and 2 s of 48 kHz mono
DurationFrames == {0, 1, 80, 160, 441, 480, 882}
WithOddSample(d) == [d EXCEPT !.raw = Append(d.raw, 6)]
TwoSeconds == ClipOf(1, 48000, 96000)
DurationClips ==
    LET whole == {ClipOf(c, r, n) : c \in 0..2, r \in {0} \cup Rates,
                                    n \in DurationFrames}
    IN  whole \cup {WithOddSample(d) : d \in whole} \cup {TwoSeconds}

\* get_audio_duration that takes the samples for frames
AudioDurationOfSamples(d) ==
    IF d.sample_rate = 0 \/ d.channels = 0
    THEN [ms |-> U64(0), overflow |-> FALSE]
    ELSE LET p == U64Times(U64(Len(d.raw)), 1000)
         IN  [ms |-> U64Div(p.value, d.sample_rate), overflow |-> p.overflow]

\* audio.rs:203-211  the u64 arithmetic of get_audio_duration on the decoded
\* stream d: source.count() samples, frames * 1000 / sample_rate
AudioDuration(d) ==
    IF d.sample_rate = 0 \/ d.channels = 0
    THEN [ms |-> U64(0), overflow |-> FALSE]
    ELSE LET total_samples == U64(Len(d.raw))
             frames == U64Div(total_samples, d.channels)
             p == U64Times(frames, 1000)
         IN  [ms |-> U64Div(p.value, d.sample_rate), overflow |-> p.overflow]

\* audio.rs:198-212  get_audio_duration of a file that decodes to d, or that
\* cannot be opened or decoded
GetAudioDuration(d, readable) ==
    /\ conv.stage = "none"
    /\ conv' = IF readable
               THEN [stage |-> "duration", status |-> "Ok",
                     channels |-> d.channels, sample_rate |-> d.sample_rate,
                     total_samples |-> Len(d.raw),
                     ms |-> AudioDuration(d).ms,
                     overflow |-> AudioDuration(d).overflow]
               ELSE [stage |-> "duration", status |-> "Cannot open"]
    /\ UNCHANGED <<audioVars, lifeVars, libVars, keyVars>>

NextDuration ==
    \E d \in DurationClips, readable \in BOOLEAN : GetAudioDuration(d, readable)

SpecDuration == Init /\ [][NextDuration]_vars

\* -------------------------------------------------------------- sound library

\* audio.rs:122-125  src.extension().and_then(|e| e.to_str()).unwrap_or("wav")
Ext(src) == IF src.ext = "" THEN "wav" ELSE src.ext

\* lib.rs:241-245  persist_state writes the library and the key sounds
Persist(lib, keys) == persisted' = [sound_library |-> lib, key_sounds |-> keys]

\* lib.rs:762-774, audio.rs:120-136  add_to_sound_library.  fs::copy copies all
\* of the source, or fails before it creates the destination (the source cannot
\* be opened, sounds_dir() or the creation fails), or fails part-way and
\* leaves what it wrote.
AddToSoundLibrary(src, display_name, copied) ==
    /\ nImports < MaxImports
    /\ nImports' = nImports + 1
    /\ LET id == uuid_simple(now)
           filename == Filename(id, Ext(src))
           entry == [id |-> id, filename |-> filename,
                     display_name |-> display_name]
       IN  IF Readable(src) /\ copied = "all"
           THEN /\ storage' = Put(storage, filename, Whole(src))
                /\ sound_library' = Append(sound_library, entry)
                /\ Persist(sound_library', key_sounds)
                /\ lret' = [cmd |-> "add_to_sound_library", status |-> "Ok"]
           ELSE /\ storage' = IF Readable(src) /\ copied = "part"
                              THEN Put(storage, filename,
                                       [Whole(src) EXCEPT !.complete = FALSE])
                              ELSE storage
                /\ lret' = [cmd |-> "add_to_sound_library",
                            status |-> "Failed to copy sound file"]
                /\ UNCHANGED <<sound_library, persisted>>
    /\ UNCHANGED <<key_sounds, now>>
    /\ UNCHANGED <<audioVars, lifeVars, conv, keyVars>>

\* lib.rs:776-790, audio.rs:139-193  add_to_sound_library_trimmed.  checked:
\* the build has overflow checks, an overflowing operation panics; otherwise it
\* wraps.  written: what WavWriter::create, write_sample and finalize got done.
AddToSoundLibraryTrimmed(src, display_name, start_ms, end_ms, checked, written) ==
    /\ nImports < MaxImports
    /\ nImports' = nImports + 1
    /\ LET d == DecodedSource(src)
           r == TrimRange(Len(d.raw), start_ms, end_ms, d.sample_rate, d.channels)
           id == uuid_simple(now)
           filename == Filename(id, "wav")
           entry == [id |-> id, filename |-> filename,
                     display_name |-> display_name]
           content == [source |-> src, first |-> r.first, count |-> r.count,
                       complete |-> written = "all"]
           Fail(status) ==
               /\ lret' = [cmd |-> "add_to_sound_library_trimmed",
                           status |-> status]
               /\ UNCHANGED <<sound_library, persisted>>
       IN  IF ~Readable(src)
           THEN Fail("Cannot open") /\ storage' = storage
           ELSE IF r.overflow /\ checked
           THEN Fail("panic") /\ storage' = storage
           ELSE IF r.count = 0
           THEN Fail("Trimmed audio is empty") /\ storage' = storage
           ELSE IF written = "none"
           THEN Fail("Failed to create WAV file") /\ storage' = storage
           ELSE IF written = "part"
           THEN /\ Fail("Failed to write sample")
                /\ storage' = Put(storage, filename, content)
           ELSE /\ storage' = Put(storage, filename, content)
                /\ sound_library' = Append(sound_library, entry)
                /\ Persist(sound_library', key_sounds)
                /\ lret' = [cmd |-> "add_to_sound_library_trimmed",
                            status |-> "Ok"]
    /\ UNCHANGED <<key_sounds, now>>
    /\ UNCHANGED <<audioVars, lifeVars, conv, keyVars>>

\* lib.rs:796  position(|e| e.id == sound_id): the first entry with the id, 0
\* for none
Position(lib, sound_id) ==
    IF \E i \in 1..Len(lib) : lib[i].id = sound_id
    THEN CHOOSE i \in 1..Len(lib) :
            /\ lib[i].id = sound_id
            /\ \A j \in 1..(i - 1) : lib[j].id # sound_id
    ELSE 0

\* Vec::remove(pos)
WithoutEntry(lib, pos) ==
    [i \in 1..(Len(lib) - 1) |-> IF i < pos THEN lib[i] ELSE lib[i + 1]]

\* lib.rs:792-811, audio.rs:91-98  remove_from_sound_library.  removed: whether
\* fs::remove_file deleted the file; its error is dropped (`let _ =`).
RemoveFromSoundLibrary(sound_id, removed) ==
    /\ LET pos == Position(sound_library, sound_id)
       IN  IF pos # 0
           THEN /\ sound_library' = WithoutEntry(sound_library, pos)
                /\ storage' = IF removed
                              THEN Remove(storage, sound_library[pos].filename)
                              ELSE storage
           ELSE UNCHANGED <<sound_library, storage>>
    /\ key_sounds' = [k \in Keys |->
                        IF key_sounds[k] = sound_id THEN None ELSE key_sounds[k]]
    /\ Persist(sound_library', key_sounds')
    /\ lret' = [cmd |-> "remove_from_sound_library", status |-> "Ok"]
    /\ UNCHANGED <<now, nImports>>
    /\ UNCHANGED <<audioVars, lifeVars, conv, keyVars>>

\* rename_sound that ignores the id and renames every entry
RenameSoundEvery(sound_id, new_name) ==
    /\ sound_library' = [i \in 1..Len(sound_library) |->
                           [sound_library[i] EXCEPT !.display_name = new_name]]
    /\ Persist(sound_library', key_sounds)
    /\ lret' = [cmd |-> "rename_sound", status |-> "Ok"]
    /\ UNCHANGED <<key_sounds, storage, now, nImports>>
    /\ UNCHANGED <<audioVars, lifeVars, conv, keyVars>>

\* lib.rs:813-825  rename_sound: iter_mut().find(|e| e.id == sound_id) is the
\* first entry with the id; the state is persisted whether one was found or not
RenameSound(sound_id, new_name) ==
    /\ LET pos == Position(sound_library, sound_id)
       IN  sound_library' = IF pos # 0
                            THEN [sound_library EXCEPT
                                    ![pos].display_name = new_name]
                            ELSE sound_library
    /\ Persist(sound_library', key_sounds)
    /\ lret' = [cmd |-> "rename_sound", status |-> "Ok"]
    /\ UNCHANGED <<key_sounds, storage, now, nImports>>
    /\ UNCHANGED <<audioVars, lifeVars, conv, keyVars>>

\* lib.rs:975-983  do_toggle_key: the filename of the sound assigned to key k,
\* None when the key has no sound or its id is in no entry
KeySoundFilename(lib, keys, k) ==
    IF keys[k] = None \/ Position(lib, keys[k]) = 0
    THEN None
    ELSE lib[Position(lib, keys[k])].filename

\* delete_sound without the path.exists() test: removing a missing file fails
DeleteSoundStrict(filename, removed) ==
    /\ IF removed /\ Exists(storage, filename)
       THEN /\ storage' = Remove(storage, filename)
            /\ lret' = [cmd |-> "delete_sound", status |-> "Ok",
                        filename |-> filename]
       ELSE /\ storage' = storage
            /\ lret' = [cmd |-> "delete_sound",
                        status |-> "Failed to delete sound file",
                        filename |-> filename]
    /\ UNCHANGED <<sound_library, key_sounds, persisted, now, nImports>>
    /\ UNCHANGED <<audioVars, lifeVars, conv, keyVars>>

\* audio.rs:91-98  delete_sound, with sounds_dir() at hand.  removed: whether
\* fs::remove_file deletes the file; its error is returned with `?`.
DeleteSound(filename, removed) ==
    /\ IF Exists(storage, filename) /\ ~removed
       THEN /\ storage' = storage
            /\ lret' = [cmd |-> "delete_sound",
                        status |-> "Failed to delete sound file",
                        filename |-> filename]
       ELSE /\ storage' = Remove(storage, filename)
            /\ lret' = [cmd |-> "delete_sound", status |-> "Ok",
                        filename |-> filename]
    /\ UNCHANGED <<sound_library, key_sounds, persisted, now, nImports>>
    /\ UNCHANGED <<audioVars, lifeVars, conv, keyVars>>

\* the clock moves on by a millisecond
Tick ==
    /\ now < FirstInstant + MaxTicks
    /\ now' = now + 1
    /\ UNCHANGED <<sound_library, key_sounds, storage, persisted, nImports, lret>>
    /\ UNCHANGED <<audioVars, lifeVars, conv, keyVars>>

\* 2^61 ms, and 10 ms later
Far == <<0, 0, 0, 0, 2>>
Far10 == <<10, 0, 0, 0, 2>>

\* <<start_ms, end_ms>> of a trim of the 20 ms sources: their first 10 ms, an
\* empty range, a range beyond their end, the same two 2^61 ms later, and a
\* range whose end lies before its start
TrimInputs ==
    {<<U64(0), U64(10)>>, <<U64(10), U64(10)>>, <<U64(20), U64(30)>>,
     <<Far, Far>>, <<Far, Far10>>, <<U64(10), U64(0)>>}

\* The ids a command can name: those of the library, and one of no entry
KnownIds ==
    {sound_library[i].id : i \in 1..Len(sound_library)}
        \cup {uuid_simple(OldInstants[1] - 1)}

\* The library as a previous run left it: up to two sounds, keys assigned
\* to some of them
InitLib ==
    /\ InitPipeline(InputConfig("Mic"))
    /\ conv = NoConv
    /\ \E n \in 0..Len(OldInstants) :
          \E keys \in [Keys -> {None} \cup {OldEntry(OldInstants[i]).id : i \in 1..n}] :
             InitLibrary(OldLibrary(n), keys)
    /\ InitKeys

NextLibrary ==
    \/ \E src \in SourceFiles, display_name \in DisplayNames,
          copied \in {"all", "part", "none"} :
             AddToSoundLibrary(src, display_name, copied)
    \/ \E src \in SourceFiles, display_name \in DisplayNames,
          ms \in TrimInputs, checked \in BOOLEAN,
          written \in {"all", "part", "none"} :
             AddToSoundLibraryTrimmed(src, display_name, ms[1], ms[2],
                                      checked, written)
    \/ \E sound_id \in KnownIds, removed \in BOOLEAN :
          RemoveFromSoundLibrary(sound_id, removed)
    \/ Tick

SpecLibrary == InitLib /\ [][NextLibrary]_vars

\* The library under renames, between imports
NextRename ==
    \/ \E sound_id \in KnownIds, new_name \in NewNames :
          RenameSound(sound_id, new_name)
    \/ \E display_name \in DisplayNames :
          AddToSoundLibrary([stem |-> "kick", ext |-> "wav"], display_name, "all")
    \/ Tick

SpecRename == InitLib /\ [][NextRename]_vars

\* The file names delete_sound can be given: those in sounds_dir(), and one
\* that is not there
Filenames ==
    {f.name : f \in storage}
        \cup {Filename(uuid_simple(OldInstants[1] - 1), "wav")}

\* The files of the library under delete_sound, between imports
NextDelete ==
    \/ \E filename \in Filenames, removed \in BOOLEAN :
          DeleteSound(filename, removed)
    \/ \E display_name \in DisplayNames :
          AddToSoundLibrary([stem |-> "kick", ext |-> "wav"], display_name, "all")
    \/ Tick

SpecDelete == InitLib /\ [][NextDelete]_vars

\* ------------------------------------------------------------ keyboard hook

\* keyboard_hook.rs:33
DEDUP_MS == 150

\* What the tick count advances by between two steps: one timer period, or
\* more than the dedup window
TickSteps == {16, 160}

\* now.wrapping_sub(prev) > DEDUP_MS on u64
U64Exceeds(a, n) == a[2] # 0 \/ a[3] # 0 \/ a[4] # 0 \/ a[5] # 0 \/ a[1] > n
NotDuplicate(now_, prev) == U64Exceeds(U64Minus(U64(now_), U64(prev)).value, DEDUP_MS)

\* A key of the Deck-8 is pressed with its modifiers: the low-level hook and
\* the Raw Input thread each get the event, or (before the hook is activated)
\* the Raw Input thread alone.  The handlers of the keystroke before have
\* returned.
KeyDown(k, seenBy) ==
    /\ \A d \in Detectors : det[d].pc = "idle"
    /\ stroke.n < MaxStrokes
    /\ stroke' = [n |-> stroke.n + 1, key |-> k, spawned |-> 0]
    /\ det' = [d \in Detectors |->
                 IF d \in seenBy
                 THEN [IdleDetector EXCEPT !.pc = "pending", !.key = k]
                 ELSE IdleDetector]
    /\ UNCHANGED <<tick, LAST_TOGGLE, hookLock, shortcuts, regpc>>
    /\ UNCHANGED <<audioVars, lifeVars, conv, libVars, mapVars, pressVars, devVars, lockVars>>

\* a handler that takes the mutex with lock(): it waits while it is held
DetLockBlocking(d) ==
    /\ det[d].pc = "pending"
    /\ hookLock = NoLock
    /\ hookLock' = d
    /\ det' = [det EXCEPT ![d].pc = "locked"]
    /\ UNCHANGED <<tick, LAST_TOGGLE, shortcuts, stroke, regpc>>
    /\ UNCHANGED <<audioVars, lifeVars, conv, libVars, mapVars, pressVars, devVars, lockVars>>

\* a handler that reads the entries without the mutex
DetNoLock(d) ==
    /\ det[d].pc = "pending"
    /\ det' = [det EXCEPT ![d].pc = "locked"]
    /\ UNCHANGED <<tick, LAST_TOGGLE, hookLock, shortcuts, stroke, regpc>>
    /\ UNCHANGED <<audioVars, lifeVars, conv, libVars, mapVars, pressVars, devVars, lockVars>>

\* keyboard_hook.rs:259, 289, 413, 436  state().try_lock(): the guard, or Err
\* when the mutex is held, and then the event is passed on untouched
DetTryLock(d) ==
    /\ det[d].pc = "pending"
    /\ IF hookLock = NoLock
       THEN /\ hookLock' = d
            /\ det' = [det EXCEPT ![d].pc = "locked"]
       ELSE /\ hookLock' = hookLock
            /\ det' = [det EXCEPT ![d].pc = "idle", ![d].refused = TRUE,
                                  ![d].ret = "next"]
    /\ UNCHANGED <<tick, LAST_TOGGLE, shortcuts, stroke, regpc>>
    /\ UNCHANGED <<audioVars, lifeVars, conv, libVars, mapVars, pressVars, devVars, lockVars>>

\* keyboard_hook.rs:261-268, 219-223  under the guard: look for the entry of
\* the key; with one, should_toggle reads the tick count; with none the guard
\* is dropped and the event passed on
DetMatch(d) ==
    /\ det[d].pc = "locked"
    /\ IF shortcuts[det[d].key] = "none"
       THEN /\ det' = [det EXCEPT ![d].pc = "idle", ![d].ret = "next"]
            /\ hookLock' = IF hookLock = d THEN NoLock ELSE hookLock
       ELSE /\ det' = [det EXCEPT ![d].pc = "swap", ![d].now = tick,
                                  ![d].read = TRUE]
            /\ hookLock' = hookLock
    /\ UNCHANGED <<tick, LAST_TOGGLE, shortcuts, stroke, regpc>>
    /\ UNCHANGED <<audioVars, lifeVars, conv, libVars, mapVars, pressVars, devVars, lockVars>>

\* keyboard_hook.rs:224-225, 269-281  the swap of LAST_TOGGLE and the test;
\* a do_toggle_key thread is spawned if the call is no duplicate; the hook
\* returns 1 for an internal entry, else the event goes to CallNextHookEx; the
\* guard is dropped
DetSwap(d) ==
    /\ det[d].pc = "swap"
    /\ LET k == det[d].key
           fire == NotDuplicate(det[d].now, LAST_TOGGLE[k])
       IN  /\ LAST_TOGGLE' = [LAST_TOGGLE EXCEPT ![k] = det[d].now]
           /\ stroke' = [stroke EXCEPT !.spawned = @ + (IF fire THEN 1 ELSE 0)]
           /\ det' = [det EXCEPT
                        ![d].pc = "idle",
                        ![d].toggled = fire,
                        ![d].ret = IF d = "hook" /\ shortcuts[k] = "internal"
                                   THEN "swallow" ELSE "next"]
    /\ hookLock' = IF hookLock = d THEN NoLock ELSE hookLock
    /\ UNCHANGED <<tick, shortcuts, regpc>>
    /\ UNCHANGED <<audioVars, lifeVars, conv, libVars, mapVars, pressVars, devVars, lockVars>>

\* keyboard_hook.rs:504  register_shortcuts: state().lock() waits for the mutex
RegisterLock ==
    /\ regpc = "idle"
    /\ hookLock = NoLock
    /\ hookLock' = "reg"
    /\ regpc' = "store"
    /\ UNCHANGED <<tick, LAST_TOGGLE, shortcuts, det, stroke>>
    /\ UNCHANGED <<audioVars, lifeVars, conv, libVars, mapVars, pressVars, devVars, lockVars>>

\* keyboard_hook.rs:505-507  the new entries are stored and the guard dropped
RegisterStore(entries) ==
    /\ regpc = "store"
    /\ shortcuts' = entries
    /\ hookLock' = NoLock
    /\ regpc' = "idle"
    /\ UNCHANGED <<tick, LAST_TOGGLE, det, stroke>>
    /\ UNCHANGED <<audioVars, lifeVars, conv, libVars, mapVars, pressVars, devVars, lockVars>>

\* the tick count moves on
TickCount(step) ==
    /\ tick < FirstTick + MaxAdvances * 16
    /\ tick' = tick + step
    /\ UNCHANGED <<LAST_TOGGLE, hookLock, shortcuts, det, stroke, regpc>>
    /\ UNCHANGED <<audioVars, lifeVars, conv, libVars, mapVars, pressVars, devVars, lockVars>>

\* keyboard_hook.rs:479-502  the entries register_shortcuts builds from the
\* keymaps: key 1 has no shortcut, a user shortcut or an internal one, the
\* other keys all have a user shortcut or all have none
Entries ==
    {[k \in Keys |-> IF k = 1 THEN e ELSE f] :
        e \in EntryKinds, f \in {"none", "user"}}

\* The entries as register_shortcuts stored them at startup
InitHook ==
    /\ InitPipeline(InputConfig("Mic"))
    /\ conv = NoConv
    /\ InitLibrary(<<>>, [k \in Keys |-> None])
    /\ \E entries \in Entries : InitKeyboard(entries)
    /\ InitKeymap
    /\ InitPress
    /\ InitDev
    /\ InitLocks

\* Keystrokes seen by the two detectors, while the shortcuts are registered
\* again and the tick count moves on
NextHook ==
    \/ \E k \in Keys, seenBy \in {Detectors, {"raw"}} : KeyDown(k, seenBy)
    \/ \E d \in Detectors : DetTryLock(d)
    \/ \E d \in Detectors : DetMatch(d)
    \/ \E d \in Detectors : DetSwap(d)
    \/ RegisterLock
    \/ \E entries \in Entries : RegisterStore(entries)
    \/ \E step \in TickSteps : TickCount(step)

SpecHook == InitHook /\ [][NextHook]_vars

\* ------------------------------------------------------------- properties

\* The oldest sample of a buffer, 0 when it holds none, and the buffer without it
Oldest(vals) == IF Len(vals) = 0 THEN 0 ELSE vals[1]
WithoutOldest(buf) == SubSeq(buf, 2, Len(buf))
InjValues == [i \in 1..Len(injBuf) |-> injBuf[i].v]

\* C1: one pull of the mixer returns mic * mic_volume + inject * sound_volume,
\* mic and inject being the oldest samples of the capture and the injection
\* buffer (0 for an empty buffer); it removes that one sample from each
\* non-empty buffer and changes nothing else.
C1_PullPost ==
    /\ out'.sample = Oldest(capBuf) * micVol + Oldest(InjValues) * sndVol
    /\ capBuf' = WithoutOldest(capBuf)
    /\ injBuf' = WithoutOldest(injBuf)
    /\ UNCHANGED <<alive, fmt, inputOn, micVol, sndVol, prodLock, cbData,
                   pc, clip, idx, call, ret, nCalls, monitors>>
    /\ UNCHANGED <<lifeVars, offlineVars>>

C1_PullMixes == [][MicSourceNext => C1_PullPost]_vars

\* a pull that found a sample in each buffer and scaled them by different volumes
C1_Witness ==
    /\ micVol = 2 /\ sndVol = 1
    /\ out.inj.v = 12
    /\ out.sample = 5 * 2 + 12 * 1

\* C2: while the pipeline exists a pull is enabled in every state: with both
\* buffers empty, with play_sound holding the producer mutex, with the input
\* stream stopped, whatever the volumes.
C2_PullNeverBlocked == alive => ENABLED MicSourceNext

\* the mixer popped a sample of the clip whose call still holds the producer mutex
C2_Witness ==
    /\ alive
    /\ prodLock = "t1"
    /\ call["t1"] > 0
    /\ out.inj.call = call["t1"]
    /\ capBuf = <<>> /\ injBuf = <<>>
    /\ ~inputOn

\* What one step may do to a ring buffer of the given capacity: nothing, remove
\* its oldest sample, or append one sample when it is not full
BufferStep(buf, bufNext, capacity) ==
    \/ bufNext = buf
    \/ buf # <<>> /\ bufNext = Tail(buf)
    \/ Len(buf) < capacity /\ Len(bufNext) = Len(buf) + 1
         /\ SubSeq(bufNext, 1, Len(buf)) = buf

\* What a push of s does: dropped on a full buffer, appended otherwise
PushPost(buf, bufNext, capacity, s) ==
    IF Len(buf) = capacity THEN bufNext = buf ELSE bufNext = Append(buf, s)

\* The samples of the injection buffer are in the order their calls pushed them
InPushOrder(buf) ==
    \A i \in 1..(Len(buf) - 1) :
        \/ buf[i].call < buf[i + 1].call
        \/ buf[i].call = buf[i + 1].call /\ buf[i].k < buf[i + 1].k

\* C3: a push into a full ring buffer (capture callback or play_sound) drops the
\* pushed sample and leaves the buffer as it is, a push into a buffer with a
\* free slot appends the sample; no step does anything to a buffer but pop its
\* oldest sample or append at its end, the mixer receives the oldest sample, and
\* the injection buffer holds its samples in the order they were pushed.
C3_OverflowDrops ==
    [][/\ BufferStep(capBuf, capBuf', CaptureCapacity(fmt))
       /\ BufferStep(injBuf, injBuf', InjectionCapacity(fmt))
       /\ \A data \in Chunks : InputCallback(data) =>
             PushPost(capBuf, capBuf', CaptureCapacity(fmt), Head(data))
       /\ InputCallbackNext =>
             PushPost(capBuf, capBuf', CaptureCapacity(fmt), Head(cbData))
       /\ \A t \in AppThreads : PlaySoundPush(t) =>
             PushPost(injBuf, injBuf', InjectionCapacity(fmt),
                      [v |-> clip[t][idx[t]], call |-> call[t], k |-> idx[t]])
       /\ (injBuf # <<>> /\ injBuf' = Tail(injBuf)) => out'.inj = Head(injBuf)
       /\ InPushOrder(injBuf')
       /\ Len(capBuf') <= CaptureCapacity(fmt)
       /\ Len(injBuf') <= InjectionCapacity(fmt)]_vars

\* the long clip overran the injection buffer: a sample was dropped, a pop freed
\* a slot and the next push was accepted, while the capture buffer is full
C3_Witness ==
    /\ Len(capBuf) = CaptureCapacity(fmt)
    /\ \E i \in 1..(Len(injBuf) - 1) :
          /\ injBuf[i].call = injBuf[i + 1].call
          /\ injBuf[i + 1].k = injBuf[i].k + 2
    /\ injBuf[1].k > 1

\* C4: in every state at most one AudioPipeline exists, also while
\* try_auto_start_pipeline runs and when two of its callers overlap: the
\* pipeline the slot held is dropped before the start of its replacement.
C4_AtMostOnePipeline == Cardinality(pipes) <= 1

\* The samples of the injection buffer that follow each other come from one
\* call and follow each other in its clip, or the first is the last sample of
\* one call's clip and the second the first sample of another call's clip
Contiguous(buf) ==
    \A i \in 1..(Len(buf) - 1) :
        \/ buf[i].call = buf[i + 1].call /\ buf[i + 1].k = buf[i].k + 1
        \/ /\ buf[i].call # buf[i + 1].call
           /\ buf[i + 1].k = 1
           /\ \A t \in AppThreads : call[t] = buf[i].call => idx[t] > Len(clip[t])

\* C5: with two threads in play_sound on the same pipeline, at most one of them
\* is in the push loop, and it is the holder of the producer mutex; the samples
\* of each call lie in the injection buffer as one run in clip order, never
\* mixed with those of another call; and a pull of the mixer is enabled while
\* the mutex is held.
C5_PushesSerialized ==
    /\ \A t \in AppThreads : pc[t] = "push" <=> prodLock = t
    /\ Contiguous(injBuf)
    /\ (alive /\ prodLock # NoThread) => ENABLED MicSourceNext

\* one call is in the middle of its clip while the other waits for the mutex
C5_Witness ==
    /\ pc["t1"] = "push" /\ idx["t1"] = 2
    /\ pc["t2"] = "lock"
    /\ injBuf # <<>> /\ injBuf[Len(injBuf)].call = call["t1"]

\* The samples play_sound can queue, as the injection buffer holds them
Queued ==
    {[v |-> Decoded("short").raw[k], call |-> c, k |-> k] :
        c \in 1..MaxPlays, k \in 1..Len(Decoded("short").raw)}

InBuffer(x) == \E i \in 1..Len(injBuf) : injBuf[i] = x

\* C6, as stated: every queued sample is eventually popped and mixed into the
\* output, and no step removes a queued sample otherwise.
C6_AlwaysPlayed ==
    /\ \A x \in Queued : InBuffer(x) ~> (out.inj = x)
    /\ [][\A i \in 1..Len(injBuf) :
             \/ \E j \in 1..Len(injBuf') : injBuf'[j] = injBuf[i]
             \/ out'.inj = injBuf[i]]_vars

\* C6, amended: while the pipeline is not dropped, every queued sample is
\* eventually popped and mixed into the output, the queued samples leave the
\* buffer oldest first, and no step but a pull removes one.
C6_PlayedUnlessDropped ==
    /\ \A x \in Queued : InBuffer(x) ~> (out.inj = x \/ ~alive)
    /\ [][alive' =>
            /\ BufferStep(injBuf, injBuf', InjectionCapacity(fmt))
            /\ (injBuf' # injBuf /\ injBuf # <<>> /\ injBuf' = Tail(injBuf)) =>
                  MicSourceNext /\ out'.inj = Head(injBuf)]_vars

\* the last sample of the second clip has been mixed and nothing is queued
C6_Witness ==
    /\ alive
    /\ out.inj.call = MaxPlays /\ out.inj.k = Len(Decoded("short").raw)
    /\ injBuf = <<>>
    /\ nCalls = MaxPlays

\* C7: set_mic_volume(v) stores v in the mic volume and set_sound_volume(v) in
\* the sound volume, each leaving the other volume and both ring buffers as they
\* are; a volume keeps the value written last until the next write to it; every
\* pull scales the mic term and the injected term by the values the cells hold;
\* and a setter is enabled whenever the pipeline exists, whatever the mixer and
\* play_sound are doing.
C7_SetterPost ==
    \A v \in Vols :
        /\ SetMicVolume(v) =>
              micVol' = v /\ UNCHANGED <<sndVol, capBuf, injBuf, out>>
        /\ SetSoundVolume(v) =>
              sndVol' = v /\ UNCHANGED <<micVol, capBuf, injBuf, out>>

C7_OnlySettersWrite ==
    /\ micVol' # micVol => SetMicVolume(micVol')
    /\ sndVol' # sndVol => SetSoundVolume(sndVol')

C7_PullScales ==
    MicSourceNext =>
        out'.sample = Oldest(capBuf) * micVol + Oldest(InjValues) * sndVol

C7_NeverWaits ==
    alive => \A v \in Vols : ENABLED SetMicVolume(v) /\ ENABLED SetSoundVolume(v)

C7_VolumeWrites ==
    /\ []C7_NeverWaits
    /\ [][C7_SetterPost /\ C7_OnlySettersWrite /\ C7_PullScales]_vars

\* a pull that scaled both terms by 2 while a play_sound call held the producer
\* mutex
C7_Witness ==
    /\ micVol = 2 /\ sndVol = 2
    /\ prodLock = "t1"
    /\ out.inj.v = 6
    /\ out.sample = 3 * 2 + 6 * 2

\* Whole frames of the pipeline's channel count, as many as the clip d lasts at
\* the pipeline's sample rate
InPipelineFormat(samples, d, f) ==
    /\ Len(samples) % f.channels = 0
    /\ Len(samples) \div f.channels =
          ((Len(d.raw) \div d.channels) * f.sample_rate) \div d.sample_rate

\* C8: for every channel count and sample rate of the decoded clip, the samples
\* play_sound is about to push are in the pipeline's format: whole frames of
\* pipeline_channels samples, as many as the clip lasts at pipeline_sample_rate.
C8_PushesPipelineFormat ==
    [][\A t \in AppThreads : \A d \in Clips :
          PlaySoundDecoded(t, d) => InPipelineFormat(clip'[t], d, fmt)]_vars

\* C9: play_sound on a file that decodes never returns an error and never
\* waits: each of its steps after the decode is enabled whatever the injection
\* buffer holds and whatever the monitoring threads do (but for the wait for the
\* producer mutex, which another play_sound call holds), a call that leaves
\* play_sound after the decode returns Ok, a push into the full buffer goes on to
\* the next sample, and a monitoring thread changes nothing of the call's.
C9_PlayNeverFails ==
    [][\A t \in AppThreads :
          /\ (pc[t] = "lock" /\ prodLock = NoThread) => ENABLED PlaySoundLock(t)
          /\ pc[t] = "push" => ENABLED (PlaySoundPush(t) \/ PlaySoundUnlock(t))
          /\ pc[t] = "spawn" => ENABLED PlaySoundReturn(t)
          /\ \A p \in GoodPaths : ~ENABLED PlaySoundFail(t, p)
          /\ (pc[t] # "idle" /\ pc'[t] = "idle") => ret'[t] = "Ok"
          /\ (pc[t] # "idle" /\ pc'[t] # "idle") => ret'[t] = "none"
          /\ PlaySoundPush(t) => idx'[t] = idx[t] + 1
          /\ Monitor => UNCHANGED <<ret, pc, injBuf, prodLock>>]_vars

\* the long clip did not fit, its call returned Ok with the tail of the clip
\* dropped, samples are still queued, and a monitoring thread gave up since
\* then
C9_Witness ==
    /\ ret["t1"] = "Ok"
    /\ nCalls = 1
    /\ Len(injBuf) = InjectionCapacity(fmt)
    /\ injBuf[Len(injBuf)].k < LongLen
    /\ monitors.gaveUp

\* C10: play_sound on a file that cannot be opened or decoded returns an error
\* and changes nothing else: the injection buffer, the capture buffer, both
\* volumes, the pipeline and the monitoring threads are as before, and the call
\* holds no lock and has nothing left to do.
C10_FailPost(t) ==
    /\ ret'[t] = "Err"
    /\ pc'[t] = "idle"
    /\ UNCHANGED <<alive, fmt, inputOn, capBuf, injBuf, micVol, sndVol, prodLock,
                   cbData, out, pc, clip, idx, call, nCalls, monitors>>
    /\ UNCHANGED <<lifeVars, offlineVars>>

C10_BadFileNoEffect ==
    /\ [](\A t \in AppThreads : \A p \in BadPaths : ~ENABLED PlaySoundDecode(t, p))
    /\ [][\A t \in AppThreads :
             /\ \A p \in BadPaths : PlaySoundFail(t, p) => C10_FailPost(t)
             /\ (ret'[t] = "Err" /\ ret[t] # "Err") => C10_FailPost(t)]_vars

\* a failed call after a successful one: the queued samples and the running
\* monitoring thread of the earlier call are still there
C10_Witness ==
    /\ ret["t1"] = "Err"
    /\ nCalls = 1
    /\ Len(injBuf) = 2
    /\ monitors.running = 1

\* The call on thread c is at AudioPipeline::start with a device name that no
\* enumerated device carries, and this step is its start
StartNotFound(c) ==
    /\ cpc[c] = "start"
    /\ ~StartOk(local[c].input, local[c].output)
    /\ cpc'[c] # "start"

C12_BuffersWithinCapacity ==
    /\ [](/\ CaptureCapacity(fmt) = fmt.sample_rate * fmt.channels
          /\ InjectionCapacity(fmt) = 30 * fmt.sample_rate * fmt.channels
          /\ Len(capBuf) \in 0..(fmt.sample_rate * fmt.channels)
          /\ Len(injBuf) \in 0..(30 * fmt.sample_rate * fmt.channels))
    /\ [][(alive /\ alive') =>
             /\ CaptureCapacity(fmt') = CaptureCapacity(fmt)
             /\ InjectionCapacity(fmt') = InjectionCapacity(fmt)]_vars

\* both buffers are full, and play_sound has gone past a sample that did not fit
C12_Witness ==
    /\ Len(capBuf) = fmt.sample_rate * fmt.channels
    /\ Len(injBuf) = 30 * fmt.sample_rate * fmt.channels
    /\ pc["t1"] = "push"
    /\ idx["t1"] = Len(injBuf) + 2
    /\ injBuf[1].k = 1

\* C13: a mono recording converted to stereo by the duplication rule and then
\* back to mono by the averaging rule is the original recording, sample for
\* sample.
C13_RoundTripExact ==
    conv.stage # "none" /\ conv.path = <<1, 2, 1>> => conv.samples = conv.raw

C13_Witness ==
    /\ conv.stage = "converted"
    /\ conv.path = <<1, 2, 1>>
    /\ conv.raw = <<-12, 6, 12>>
    /\ conv.samples = <<-12, 6, 12>>

\* C14: when the decoded clip has the pipeline's sample rate, the samples
\* play_sound holds after its conversion are exactly the channel-converted
\* samples, and each push into a buffer with room appends the next of them,
\* in order.
C14_EqualRatesNoOp ==
    /\ [][\A t \in AppThreads : \A d \in Clips :
             (PlaySoundDecoded(t, d) /\ d.sample_rate = fmt.sample_rate)
                => clip'[t] = ChannelConvert(d.raw, d.channels, fmt.channels)]_vars
    /\ [][\A t \in AppThreads :
             (PlaySoundPush(t) /\ Len(injBuf) < InjectionCapacity(fmt))
                => /\ injBuf' = Append(injBuf, [v |-> clip[t][idx[t]],
                                                call |-> call[t], k |-> idx[t]])
                   /\ idx'[t] = idx[t] + 1
                   /\ clip' = clip]_vars

\* a stereo clip of two frames at 1 Hz, all of it pushed into a stereo pipeline
\* at 1 Hz
C14_Witness ==
    /\ fmt = [channels |-> 2, sample_rate |-> 1]
    /\ clip["t1"] = <<12, 24, 12, 24>>
    /\ idx["t1"] = 5
    /\ InjValues = <<12, 24, 12, 24>>

\* C15: when the rates differ, the resampler yields floor(len / ratio) samples
\* for ratio = src_rate / dst_rate, that is floor(len * dst_rate / src_rate),
\* whatever the length len of the channel-converted samples and the rates.
C15_LengthIsFloor ==
    (conv.stage \in {"resampled", "pushed"} /\ conv.src_rate # conv.dst_rate)
        => Len(conv.samples) = (conv.chan_len * conv.dst_rate) \div conv.src_rate

\* C16: the mono 8 kHz recording of 4000 samples (500 ms), converted for a
\* stereo 48 kHz pipeline and pushed into an injection buffer with room for it,
\* is 8000 samples after the channel conversion and 48000 after the rate
\* conversion, and all 48000 are pushed.
C16_HalfSecondClip ==
    (/\ conv.stage \in {"resampled", "pushed"}
     /\ conv.src_rate = 8000 /\ Len(conv.raw) = 4000
     /\ conv.path = <<1, 2>> /\ conv.dst_rate = 48000)
        => /\ conv.chan_len = 8000
           /\ Len(conv.samples) = 48000
           /\ (conv.stage = "pushed" /\ conv.free >= 48000)
                 => conv.pushed = 48000

C16_Witness ==
    /\ conv.stage = "pushed"
    /\ conv.src_rate = 8000 /\ Len(conv.raw) = 4000
    /\ conv.path = <<1, 2>> /\ conv.dst_rate = 48000
    /\ conv.free = InjectionCapacity([channels |-> 2, sample_rate |-> 48000])
    /\ conv.pushed = 48000

\* frames * 1000 / sample_rate: how long a decoded source lasts, in ms
DurationMs(d) == ((Len(d.raw) \div d.channels) * 1000) \div d.sample_rate
U64LessEq(a, b) == ~U64Minus(b, a).overflow
\* start_ms .. end_ms is a range, and none of it lies inside the clip d
BeyondClip(d, start_ms, end_ms) ==
    U64LessEq(U64(DurationMs(d)), start_ms) /\ U64LessEq(start_ms, end_ms)

\* C17: add_to_sound_library_trimmed on a file that decodes, with start_ms =
\* end_ms or with a range that lies entirely beyond the clip's duration,
\* returns the empty-trim error, writes no file and adds no library entry.
C17_EmptyTrimRejected ==
    [][\A src \in SourceFiles, display_name \in DisplayNames, ms \in TrimInputs,
          checked \in BOOLEAN, written \in {"all", "part", "none"} :
          (/\ Readable(src)
           /\ ms[1] = ms[2] \/ BeyondClip(DecodedSource(src), ms[1], ms[2])
           /\ AddToSoundLibraryTrimmed(src, display_name, ms[1], ms[2],
                                       checked, written))
             => /\ lret'.status = "Trimmed audio is empty"
                /\ storage' = storage
                /\ sound_library' = sound_library]_vars

\* C18: the entries of the library have distinct ids and distinct filenames,
\* whenever their imports happened, and an import leaves the file of every
\* entry that was in the library as it was.
C18_DistinctIds ==
    /\ [](\A i, j \in 1..Len(sound_library) :
             i # j => /\ sound_library[i].id # sound_library[j].id
                      /\ sound_library[i].filename # sound_library[j].filename)
    /\ [][nImports' = nImports + 1
             => \A i \in 1..Len(sound_library) : \A f \in storage :
                   f.name = sound_library[i].filename => f \in storage']_vars

\* C19: an import that fails with a copy, create, write-sample or finalize
\* error leaves no partial state: the library and its persisted copy are
\* unchanged, and storage holds no file named after the id the import
\* generated, but for a file that was there before, unchanged.
C19_FailedImportLeavesNothing ==
    [][(/\ nImports' = nImports + 1
        /\ lret'.status \in {"Failed to copy sound file",
                              "Failed to create WAV file",
                              "Failed to write sample"})
          => /\ sound_library' = sound_library
             /\ persisted' = persisted
             /\ \A f \in storage' :
                   f.name.stem = uuid_simple(now) => f \in storage]_vars

\* C20: remove_from_sound_library(id) leaves no entry and no key with the id
\* and no file of an entry that had it; the other entries keep their order and
\* their files, the other keys their sounds.
C20_RemovePost ==
    [][\A sound_id \in KnownIds, removed \in BOOLEAN :
          RemoveFromSoundLibrary(sound_id, removed)
             => LET gone == {sound_library[i].filename :
                               i \in {j \in 1..Len(sound_library) :
                                         sound_library[j].id = sound_id}}
                    Other(e) == e.id # sound_id
                IN  /\ sound_library' = SelectSeq(sound_library, Other)
                    /\ \A f \in storage' : f.name \notin gone
                    /\ \A f \in storage : f.name \notin gone => f \in storage'
                    /\ storage' \subseteq storage
                    /\ \A k \in Keys :
                          key_sounds'[k] = IF key_sounds[k] = sound_id THEN None
                                           ELSE key_sounds[k]]_vars

\* C21: rename_sound changes the display_name of the (first) entry with the id
\* and nothing else: ids, filenames, the order and number of entries, the key
\* sounds and the stored files stay, every key resolves to the file it resolved
\* to before, and an id that is in no entry changes nothing at all
C21_RenamePost(sound_id, new_name) ==
    LET pos == Position(sound_library, sound_id)
    IN  /\ Len(sound_library') = Len(sound_library)
        /\ \A i \in 1..Len(sound_library) :
              /\ sound_library'[i].id = sound_library[i].id
              /\ sound_library'[i].filename = sound_library[i].filename
              /\ sound_library'[i].display_name =
                    IF i = pos THEN new_name ELSE sound_library[i].display_name
        /\ key_sounds' = key_sounds
        /\ storage' = storage
        /\ \A k \in Keys :
              KeySoundFilename(sound_library', key_sounds', k) =
                 KeySoundFilename(sound_library, key_sounds, k)
        /\ pos = 0 => /\ sound_library' = sound_library
                      /\ persisted' = persisted

C21_RenameOnlyName ==
    [][\A sound_id \in KnownIds, new_name \in NewNames :
          RenameSound(sound_id, new_name) => C21_RenamePost(sound_id, new_name)]_vars

\* a key's sound was renamed and the key still resolves to its stored file
C21_Witness ==
    /\ lret.cmd = "rename_sound"
    /\ \E k \in Keys :
          /\ key_sounds[k] # None
          /\ Position(sound_library, key_sounds[k]) # 0
          /\ sound_library[Position(sound_library, key_sounds[k])].display_name
                = "Snare"
          /\ Exists(storage, KeySoundFilename(sound_library, key_sounds, k))

DeletedBefore(filename) ==
    /\ lret.cmd = "delete_sound"
    /\ lret.status = "Ok"
    /\ lret.filename = filename

C23_DurationPost(d) ==
    /\ conv'.status = "Ok"
    /\ ~conv'.overflow
    /\ conv'.ms = IF d.sample_rate = 0 \/ d.channels = 0
                  THEN U64(0)
                  ELSE U64(((Len(d.raw) \div d.channels) * 1000)
                              \div d.sample_rate)
    /\ d = TwoSeconds => conv'.ms = U64(2000)

C23_DurationIsFramesPerRate ==
    [][\A d \in DurationClips :
          GetAudioDuration(d, TRUE) => C23_DurationPost(d)]_vars

\* a stereo stream cut off inside a frame was measured
C23_Witness ==
    /\ conv.stage = "duration"
    /\ conv.status = "Ok"
    /\ conv.channels = 2
    /\ conv.sample_rate = 44100
    /\ conv.total_samples = 883
    /\ conv.ms = U64(10)

\* the input stream delivers no more data and no callback is under way
InputStopped == ~inputOn /\ cbData = <<>>

\* C24: after the input stream has stopped delivering, the pipeline goes on:
\* the input stays stopped and the capture buffer, which holds at most its
\* capacity, only shrinks, by one sample per pull; the output stream can always
\* pull, so the buffer runs empty and stays empty; from then on every mixer
\* output is the injected sample (0 for none) times sound_volume; and
\* play_sound can still be called and its samples still reach the mixer
C24_SilenceAfterInputStops ==
    /\ [](InputStopped => /\ alive
                          /\ Len(capBuf) <= CaptureCapacity(fmt)
                          /\ ENABLED MicSourceNext
                          /\ (pc["t1"] = "idle" /\ nCalls = 0
                                => ENABLED PlaySoundDecode("t1", "short"))
                          /\ (pc["t1"] # "idle" => ENABLED PlaySoundRest("t1")))
    /\ [][InputStopped =>
            /\ InputStopped'
            /\ capBuf' = IF MicSourceNext THEN PopRest(capBuf) ELSE capBuf
            /\ (MicSourceNext /\ capBuf = <<>> =>
                  out'.sample = (IF injBuf = <<>> THEN 0 ELSE Head(injBuf).v)
                                   * sndVol)]_vars
    /\ (InputStopped ~> [](capBuf = <<>>))

\* with the input stopped and the capture buffer drained, a sample of a clip
\* played at sound volume 2 came out of the mixer
C24_Witness ==
    /\ InputStopped
    /\ capBuf = <<>>
    /\ out.inj # NoSample
    /\ sndVol = 2
    /\ out.sample = 2 * out.inj.v
    /\ micVol = 2

\* the call of try_auto_start_pipeline on thread c returns with this step
AutoStartReturns(c) == cpc[c] # "idle" /\ cpc'[c] = "idle"

\* C25: try_auto_start_pipeline empties the slot first and creates a pipeline
\* only after it found both devices set and the output a virtual cable; when
\* it returns, the slot holds a pipeline only if this call found the conditions
\* to hold and its AudioPipeline::start succeeded, that is, only if the call
\* returns from storing its own pipeline
C25_SlotOnlyWhenStarted ==
    [][\A c \in CmdThreads :
          /\ (cpc'[c] = "start" /\ cpc[c] # "start" =>
                /\ cpc[c] = "read"
                /\ audio_config.audio_input_device # Unset
                /\ audio_config.audio_output_device # Unset
                /\ is_virtual_cable(audio_config.audio_output_device))
          /\ (AutoStartReturns(c) /\ slot' # 0 =>
                /\ cpc[c] = "store"
                /\ slot' = local[c].id)]_vars

\* the two detectors have both read the tick count for the keystroke under
\* way, and their readings are at most DEDUP_MS apart
ReadingsClose ==
    /\ \A d \in Detectors : det[d].read
    /\ det["hook"].now - det["raw"].now <= DEDUP_MS
    /\ det["raw"].now - det["hook"].now <= DEDUP_MS

\* C26: for a keystroke that both detectors see, with tick readings at most
\* DEDUP_MS apart, should_toggle returns true at most once, so at most one
\* do_toggle_key thread is spawned for the keystroke
C26_OneToggle ==
    ReadingsClose =>
       /\ ~(det["hook"].toggled /\ det["raw"].toggled)
       /\ stroke.spawned <= 1

\* both detectors handled a keystroke of a registered key, the Raw Input
\* thread a timer period after the hook, and one of them toggled
C26_Witness ==
    /\ ReadingsClose
    /\ \A d \in Detectors : det[d].pc = "idle"
    /\ det["raw"].now = det["hook"].now + 16
    /\ det["hook"].toggled
    /\ ~det["raw"].toggled
    /\ stroke.spawned = 1

\* C27: the two handlers never wait for the HOOK_STATE mutex: a pending key
\* event can always take its next step, whoever holds the mutex; an event that
\* finds the mutex held starts no toggle and is passed on; and the low-level
\* hook returns 1 only for an event that matched an internal entry, the Raw
\* Input thread never
C27_HandlersNeverWait ==
    /\ [](\A d \in Detectors :
             /\ det[d].pc = "pending" => ENABLED DetTryLock(d)
             /\ det[d].pc = "locked" => ENABLED DetMatch(d)
             /\ det[d].pc = "swap" => ENABLED DetSwap(d)
             /\ det[d].refused => ~det[d].toggled /\ ~det[d].read
             /\ det[d].ret = "swallow" =>
                   d = "hook" /\ det[d].read /\ ~det[d].refused)
    /\ [][\A d \in Detectors :
            /\ (DetTryLock(d) /\ hookLock # NoLock =>
                  /\ det'[d].pc = "idle"
                  /\ det'[d].ret = "next"
                  /\ stroke' = stroke
                  /\ LAST_TOGGLE' = LAST_TOGGLE
                  /\ hookLock' = hookLock)
            /\ (det'[d].ret = "swallow" /\ det[d].ret # "swallow" =>
                  shortcuts[det[d].key] = "internal")]_vars

\* the hook met the mutex in the hands of register_shortcuts and passed the
\* event on, while the Raw Input thread has not looked at it yet
C27_Witness ==
    /\ regpc = "store"
    /\ hookLock = "reg"
    /\ det["hook"].refused
    /\ det["hook"].ret = "next"
    /\ det["raw"].pc = "pending"
    /\ stroke.spawned = 0

\* ---------------------------------------------------------------- key map
\* keycode of set_keycode: no key, "A" without modifier, Ctrl+M, and
\* Ctrl+Shift+Alt+1
UserCodes == {0, 4, 272, 1822}
\* key_index of the key commands: the keys of the model, and one past the pad
KeyIndexes == {LedIndex[k] : k \in Keys} \cup {NumKeys}

\* lib.rs:160-195  register_key_shortcuts(app, maps) at the end of a command
Reregister(maps) ==
    LET r == register_key_shortcuts(maps)
    IN  /\ shortcut_map' = r.shortcut_map
        /\ registered' = r.registered

\* hid.rs:68-72  dev.set_keycode sends the report and reads the answer: the pad
\* has the keycode when the report was sent
DeviceSetKeycode(key_index, keycode, sent) ==
    devKeymaps' = IF sent THEN [devKeymaps EXCEPT ![key_index + 1] = keycode]
                  ELSE devKeymaps

\* lib.rs:447-472  set_keycode: key_index is a keymap index; `written` says
\* whether dev.set_keycode succeeded (it is not called when no device is
\* connected); a call that failed may have sent its report
SetKeycode(key_index, keycode, written) ==
    /\ IF key_index >= NumKeys
       THEN /\ lret' = [cmd |-> "set_keycode", status |-> "Err",
                        key_index |-> key_index]
            /\ UNCHANGED <<mapVars, devKeymaps>>
       ELSE IF device /\ ~written
       THEN /\ lret' = [cmd |-> "set_keycode", status |-> "Err",
                        key_index |-> key_index]
            /\ \E sent \in BOOLEAN : DeviceSetKeycode(key_index, keycode, sent)
            /\ UNCHANGED mapVars
       ELSE /\ DeviceSetKeycode(key_index, keycode, device)
            /\ keymaps' = [keymaps EXCEPT ![key_index + 1] = keycode]
            /\ userSet' = [userSet EXCEPT ![key_index + 1] = (keycode # 0)]
            /\ Reregister(keymaps')
            /\ lret' = [cmd |-> "set_keycode", status |-> "Ok",
                        key_index |-> key_index]
    /\ UNCHANGED <<sound_library, key_sounds, storage, persisted, now, nImports>>
    /\ UNCHANGED <<keycfg, global_slot, device, devKeys, ledFailed, nEdits,
                   lockVars>>
    /\ UNCHANGED <<audioVars, lifeVars, conv, hookVars, pressVars>>

\* lib.rs:827-876  set_key_sound: key_index is a LED index; a failure of
\* dev.set_keycode is only logged
SetKeySound(key_index, sound_id) ==
    /\ IF key_index >= NumKeys
       THEN /\ lret' = [cmd |-> "set_key_sound", status |-> "Err",
                        key_index |-> key_index]
            /\ UNCHANGED <<key_sounds, persisted, mapVars, devKeymaps>>
       ELSE LET keymap_idx == led_to_keymap_index(key_index)
                current_keycode == keymaps[keymap_idx + 1]
            IN  /\ key_sounds' = [key_sounds EXCEPT
                                    ![KeyOfLed(key_index)] = sound_id]
                /\ IF sound_id # None /\ current_keycode = 0
                   THEN /\ keymaps' =
                             [keymaps EXCEPT ![keymap_idx + 1] =
                                 internal_keycode_for_key(key_index)]
                        /\ userSet' = [userSet EXCEPT ![keymap_idx + 1] = FALSE]
                        /\ \E sent \in BOOLEAN :
                              DeviceSetKeycode(keymap_idx,
                                               internal_keycode_for_key(key_index),
                                               device /\ sent)
                   ELSE IF sound_id = None /\ is_internal_keycode(current_keycode)
                   THEN /\ keymaps' = [keymaps EXCEPT ![keymap_idx + 1] = 0]
                        /\ userSet' = [userSet EXCEPT ![keymap_idx + 1] = FALSE]
                        /\ \E sent \in BOOLEAN :
                              DeviceSetKeycode(keymap_idx, 0, device /\ sent)
                   ELSE UNCHANGED <<keymaps, userSet, devKeymaps>>
                /\ Persist(sound_library, key_sounds')
                /\ Reregister(keymaps')
                /\ lret' = [cmd |-> "set_key_sound", status |-> "Ok",
                            key_index |-> key_index]
    /\ UNCHANGED <<sound_library, storage, now, nImports>>
    /\ UNCHANGED <<keycfg, global_slot, device, devKeys, ledFailed, nEdits,
                   lockVars>>
    /\ UNCHANGED <<audioVars, lifeVars, conv, hookVars, pressVars>>

\* The key commands that write the key map
NextKeymap ==
    \/ \E key_index \in {led_to_keymap_index(i) : i \in KeyIndexes \ {NumKeys}}
                            \cup {NumKeys},
          keycode \in UserCodes, written \in BOOLEAN :
             SetKeycode(key_index, keycode, written)
    \/ \E key_index \in KeyIndexes, sound_id \in KnownIds \cup {None} :
          SetKeySound(key_index, sound_id)

SpecKeymap == InitLib /\ [][NextKeymap]_vars

\* C28: set_key_sound never changes the keymap entry of a key whose keycode
\* the user set with set_keycode, whether it assigns or removes a sound
C28_UserKeycodeKept ==
    [][\A key_index \in KeyIndexes, sound_id \in KnownIds \cup {None} :
          SetKeySound(key_index, sound_id) =>
             \A i \in 1..NumKeys : userSet[i] => keymaps'[i] = keymaps[i]]_vars

\* -------------------------------------------------------------- key presses
\* lib.rs:962-965
ToggleSlot(a) == IF a = "A" THEN "B" ELSE "A"

\* What Decoder yields for a stored file: the samples the import wrote
StoredClip(content) ==
    LET d == DecodedSource(content.source)
    IN  IF content = Whole(content.source) THEN d
        ELSE [d EXCEPT !.raw = SubSeq(d.raw, content.first + 1,
                                      content.first + content.count)]
ContentOf(dir, name) == (CHOOSE f \in dir : f.name = name).content

\* lib.rs:971-973 and the like  `if let Some(ref dev) = st.device' around
\* apply_key_to_device and apply_all_to_device: the pad after the writes, and
\* whether one of them failed
ApplyKey(k, cfg, slots, written) ==
    IF device
    THEN /\ devKeys' = [devKeys EXCEPT ![k] =
                           apply_key_to_device(@, cfg[k], slots[k], written)]
         /\ ledFailed' = (ledFailed \/ ApplyFailed(cfg[k], written))
    ELSE UNCHANGED <<devKeys, ledFailed>>
ApplyAll(cfg, slots, w) ==
    IF device
    THEN /\ devKeys' = apply_all_to_device(devKeys, cfg, slots, w)
         /\ ledFailed' = (ledFailed \/ \E k \in Keys : ApplyFailed(cfg[k], w[k]))
    ELSE UNCHANGED <<devKeys, ledFailed>>

\* lib.rs:955-985  do_toggle_key(app, key_index) on thread t, under the state's
\* mutex: the active slot of the key flips, the state is persisted and the
\* filename of the key's sound is looked up.  entry is the shortcut_map entry
\* of the handler that calls, NoEntry for another caller.
ToggleBegin(t, key_index, entry) ==
    /\ tog[t].pc = (IF entry = NoEntry THEN "idle" ELSE "matched")
    /\ pc[t] = "idle"
    /\ nPress < MaxPresses
    /\ nCalls + Cardinality({u \in AppThreads \ {t} : tog[u].pc # "idle"})
          < MaxPlays
    /\ nPress' = nPress + 1
    /\ nEdits < MaxEdits
    /\ nEdits' = nEdits + 1
    /\ IF key_index >= NumKeys
       THEN /\ tog' = [tog EXCEPT ![t] =
                          [IdleToggle EXCEPT !.pc = "return", !.entry = entry]]
            /\ UNCHANGED <<active_slot, persisted, keycfg, global_slot, device,
                           devKeys, devKeymaps, ledFailed>>
       ELSE LET k == KeyOfLed(key_index)
                filename == KeySoundFilename(sound_library, key_sounds, k)
            IN  /\ active_slot' = [active_slot EXCEPT ![k] = ToggleSlot(@)]
                /\ \E written \in Reports :
                      ApplyKey(k, keycfg, active_slot', written)
                /\ UNCHANGED <<keycfg, global_slot, device, devKeymaps>>
                /\ Persist(sound_library, key_sounds)
                /\ tog' = [tog EXCEPT ![t] =
                              [IdleToggle EXCEPT
                                 !.pc = IF filename = None THEN "emit"
                                        ELSE "resolve",
                                 !.key = key_index, !.filename = filename,
                                 !.entry = entry]]
    /\ UNCHANGED <<sound_library, key_sounds, storage, now, nImports, lret>>
    /\ UNCHANGED <<replay, events, emitted>>
    /\ UNCHANGED <<audioVars, lifeVars, conv, hookVars, mapVars, lockVars>>

\* lib.rs:990, audio.rs:100-106  resolve_sound_path: Err when the file is not in
\* sounds_dir(), and the sound is skipped
ToggleResolve(t) ==
    /\ tog[t].pc = "resolve"
    /\ tog' = [tog EXCEPT ![t] =
                  IF Exists(storage, tog[t].filename)
                  THEN [@ EXCEPT !.pc = "check", !.found = TRUE]
                  ELSE [@ EXCEPT !.pc = "emit"]]
    /\ UNCHANGED <<active_slot, nPress, replay, events, emitted>>
    /\ UNCHANGED <<audioVars, lifeVars, conv, libVars, hookVars, mapVars, devVars, lockVars>>

\* lib.rs:991-993, 997-999  the slot's mutex is taken and the slot is looked at:
\* with a pipeline the guard is kept for play_sound, without one it is dropped
ToggleCheckSlot(t) ==
    /\ tog[t].pc = "check"
    /\ SlotLockFree
    /\ tog' = [tog EXCEPT ![t] =
                  [@ EXCEPT !.pc = IF slot # 0 THEN "play" ELSE "fallback",
                            !.seen = slot, !.calls = nCalls]]
    /\ UNCHANGED <<active_slot, nPress, replay, events, emitted>>
    /\ UNCHANGED <<audioVars, lifeVars, conv, libVars, hookVars, mapVars, devVars, lockVars>>

\* lib.rs:994  pipeline.play_sound(&path) under the guard; the files of the
\* library decode, and the pipeline of the model gets the clip of path p
TogglePlay(t, p) ==
    /\ tog[t].pc = "play"
    /\ nCalls = tog[t].calls
    /\ PlaySoundDecode(t, p)

\* a do_toggle_key that goes on to the fallback after play_sound
ToggleUnlockAndFallBack(t) ==
    /\ tog[t].pc = "play"
    /\ pc[t] = "idle" /\ nCalls > tog[t].calls
    /\ tog' = [tog EXCEPT ![t] =
                  [@ EXCEPT !.pc = "fallback", !.pipeline = nCalls - tog[t].calls]]
    /\ UNCHANGED <<active_slot, nPress, replay, events, emitted>>
    /\ UNCHANGED <<audioVars, lifeVars, conv, libVars, hookVars, mapVars, devVars, lockVars>>

\* lib.rs:994-997  play_sound has returned (an error is only logged) and the
\* guard goes out of scope
ToggleUnlock(t) ==
    /\ tog[t].pc = "play"
    /\ pc[t] = "idle" /\ nCalls > tog[t].calls
    /\ tog' = [tog EXCEPT ![t] =
                  [@ EXCEPT !.pc = "emit", !.pipeline = nCalls - tog[t].calls]]
    /\ UNCHANGED <<active_slot, nPress, replay, events, emitted>>
    /\ UNCHANGED <<audioVars, lifeVars, conv, libVars, hookVars, mapVars, devVars, lockVars>>

\* lib.rs:998-1005  the fallback: get_audio_duration(path).unwrap_or(60000), then
\* preview_trim(path, 0, dur), whose error is only logged.  audio.rs:224-236:
\* preview_trim fails when the range holds no sample.
ToggleFallback(t) ==
    /\ tog[t].pc = "fallback"
    /\ LET d == StoredClip(ContentOf(storage, tog[t].filename))
           dur == AudioDuration(d).ms
           r == TrimRange(Len(d.raw), U64(0), dur, d.sample_rate, d.channels)
       IN  tog' = [tog EXCEPT ![t] =
                      [@ EXCEPT !.pc = "emit", !.fallback = @ + 1,
                                !.fallbackRet = IF r.count = 0 THEN "Err"
                                                ELSE "Ok"]]
    /\ UNCHANGED <<active_slot, nPress, replay, events, emitted>>
    /\ UNCHANGED <<audioVars, lifeVars, conv, libVars, hookVars, mapVars, devVars, lockVars>>

\* lib.rs:1008-1009  app.emit("state-updated") and the return to the caller
ToggleEmit(t) ==
    /\ tog[t].pc = "emit"
    /\ tog' = [tog EXCEPT ![t].pc = "return"]
    /\ UNCHANGED <<active_slot, nPress, replay, events, emitted>>
    /\ UNCHANGED <<audioVars, lifeVars, conv, libVars, hookVars, mapVars, devVars, lockVars>>

\* keyboard_hook.rs:272-278  the thread spawned for a key press ends when
\* do_toggle_key has returned
ToggleThreadEnd(t) ==
    /\ tog[t].pc = "return"
    /\ tog[t].entry = NoEntry
    /\ tog' = [tog EXCEPT ![t].pc = "idle"]
    /\ UNCHANGED <<active_slot, nPress, replay, events, emitted>>
    /\ UNCHANGED <<audioVars, lifeVars, conv, libVars, hookVars, mapVars, devVars, lockVars>>

\* do_toggle_key on thread t, called with a key index
DoToggleKey(t) ==
    \/ \E key_index \in KeyIndexes : ToggleBegin(t, key_index, NoEntry)
    \/ ToggleResolve(t)
    \/ ToggleCheckSlot(t)
    \/ TogglePlay(t, "short")
    \/ PlaySoundRest(t)
    \/ ToggleUnlock(t)
    \/ ToggleFallback(t)
    \/ ToggleEmit(t)
    \/ ToggleThreadEnd(t)

\* A library of one sound, which is the sound of the first key, and no
\* pipeline yet
InitToggle ==
    /\ InitSlot
    /\ conv = NoConv
    /\ InitLibrary(OldLibrary(1),
                   [k \in Keys |-> IF k = 1 THEN OldEntry(OldInstants[1]).id
                                   ELSE None])
    /\ InitKeys

\* Key presses while a command thread restarts the pipeline
NextToggle ==
    \/ AutoStart("c1")
    \/ DoToggleKey("t1")

SpecToggle == InitToggle /\ [][NextToggle]_vars

\* C29: a do_toggle_key call that found the file of the key's sound has, when
\* it is through, called exactly one of pipeline.play_sound and preview_trim:
\* play_sound if and only if the slot held a pipeline when it was checked, and
\* the play_sound call got to its end.  No call ever makes more than one of the
\* two calls, whatever try_auto_start_pipeline does meanwhile.
C29_ExactlyOnePath ==
    \A t \in AppThreads :
       /\ tog[t].pipeline + tog[t].fallback <= 1
       /\ tog[t].found /\ tog[t].pc \in {"emit", "return", "idle"} =>
             /\ tog[t].pipeline + tog[t].fallback = 1
             /\ tog[t].pipeline = 1 <=> tog[t].seen # 0
             /\ tog[t].pipeline = 1 => ret[t] = "Ok"
       /\ tog[t].pc = "play" => slot = tog[t].seen /\ alive

\* a press found the slot empty while the pipeline was restarted and went
\* through the fallback
C29_Witness ==
    /\ tog["t1"].pc = "return"
    /\ tog["t1"].found
    /\ tog["t1"].fallback = 1 /\ tog["t1"].fallbackRet = "Ok"
    /\ cpc["c1"] = "store"

\* ------------------------------------------------- global shortcut handler
\* The keycodes a keymap entry of the model can hold
AllCodes == UserCodes \cup {internal_keycode_for_key(i) : i \in 0..(NumKeys - 1)}

\* lib.rs:1134  format!("{}", shortcut) of the shortcut registered with the
\* string s: modifiers and key are those the string was made from
ShortcutDisplay(s) ==
    qmk_keycode_to_display(
        CHOOSE keycode \in AllCodes : qmk_keycode_to_shortcut(keycode) = s)

\* The pad sends the keycode of a key whose shortcut s is registered: the
\* plugin queues a Pressed event for the handler
PressKey(s) ==
    /\ s \in registered
    /\ nPress + Len(events) < MaxPresses
    /\ events' = Append(events, [shortcut |-> s, simulated |-> FALSE])
    /\ UNCHANGED <<active_slot, tog, nPress, replay, emitted>>
    /\ UNCHANGED <<audioVars, lifeVars, conv, libVars, hookVars, mapVars, devVars, lockVars>>

\* lib.rs:1132-1141, 1165-1167  the handler on the main thread t takes the next
\* event and looks its display string up in shortcut_map; an unmatched
\* shortcut is only logged
HandlerLookup(t) ==
    /\ tog[t].pc = "idle"
    /\ events # <<>>
    /\ events' = Tail(events)
    /\ LET shortcut_str == ShortcutDisplay(Head(events).shortcut)
           found == {e \in shortcut_map : e.display = shortcut_str}
       IN  tog' = IF found = {} THEN tog
                  ELSE [tog EXCEPT ![t] =
                          [IdleToggle EXCEPT !.pc = "matched",
                                             !.entry = CHOOSE e \in found : TRUE]]
    /\ UNCHANGED <<active_slot, nPress, replay, emitted>>
    /\ UNCHANGED <<audioVars, lifeVars, conv, libVars, hookVars, mapVars, devVars, lockVars>>

\* lib.rs:1144  do_toggle_key(app, led_idx) of the handler
HandlerToggle(t) ==
    \/ ToggleBegin(t, tog[t].entry.led_idx, tog[t].entry)
    \/ ToggleResolve(t)
    \/ ToggleCheckSlot(t)
    \/ ToggleFallback(t)
    \/ ToggleEmit(t)

\* lib.rs:1146-1164  after do_toggle_key: return for an internal keycode, else
\* spawn the replay thread r
HandlerReplay(t, r) ==
    /\ tog[t].pc = "return"
    /\ tog[t].entry # NoEntry
    /\ tog' = [tog EXCEPT ![t].pc = "idle"]
    /\ IF is_internal_keycode(tog[t].entry.keycode)
       THEN UNCHANGED replay
       ELSE /\ replay[r].pc = "idle"
            /\ replay' = [replay EXCEPT ![r] =
                             [pc |-> "unregister",
                              keycode |-> tog[t].entry.keycode,
                              register_str |-> tog[t].entry.shortcut_str]]
    /\ UNCHANGED <<active_slot, nPress, events, emitted>>
    /\ UNCHANGED <<audioVars, lifeVars, conv, libVars, hookVars, mapVars, devVars, lockVars>>

\* lib.rs:1157-1158  let _ = unregister(register_str): an error (the shortcut
\* is not registered) is ignored
ReplayUnregister(r) ==
    /\ replay[r].pc = "unregister"
    /\ registered' = registered \ {replay[r].register_str}
    /\ replay' = [replay EXCEPT ![r].pc = "simulate"]
    /\ UNCHANGED <<keymaps, userSet, shortcut_map>>
    /\ UNCHANGED <<active_slot, tog, nPress, events, emitted>>
    /\ UNCHANGED <<audioVars, lifeVars, conv, libVars, hookVars, devVars, lockVars>>

\* lib.rs:95-147, 1159-1160  after the sleep of 5 ms: simulate_qmk_keystroke
\* presses the modifiers and the key of the keycode, unless Enigo::new failed
\* (made is FALSE).  The plugin queues an event if that shortcut is registered.
ReplaySimulate(r, made) ==
    /\ replay[r].pc = "simulate"
    /\ replay' = [replay EXCEPT ![r].pc = "register"]
    /\ LET s == qmk_keycode_to_shortcut(replay[r].keycode)
       IN  IF made
           THEN /\ emitted' = Append(emitted,
                                     [keycode |-> replay[r].keycode,
                                      registered |-> s \in registered])
                /\ events' = IF s \in registered
                             THEN Append(events, [shortcut |-> s,
                                                  simulated |-> TRUE])
                             ELSE events
           ELSE UNCHANGED <<emitted, events>>
    /\ UNCHANGED <<active_slot, tog, nPress>>
    /\ UNCHANGED <<audioVars, lifeVars, conv, libVars, hookVars, mapVars, devVars, lockVars>>

\* lib.rs:1161-1163  after the sleep of 30 ms: let _ = register(register_str)
ReplayRegister(r) ==
    /\ replay[r].pc = "register"
    /\ registered' = registered \cup {replay[r].register_str}
    /\ replay' = [replay EXCEPT ![r] = IdleReplay]
    /\ UNCHANGED <<keymaps, userSet, shortcut_map>>
    /\ UNCHANGED <<active_slot, tog, nPress, events, emitted>>
    /\ UNCHANGED <<audioVars, lifeVars, conv, libVars, hookVars, devVars, lockVars>>

ReplayThread(r) ==
    \/ ReplayUnregister(r)
    \/ \E made \in BOOLEAN : ReplaySimulate(r, made)
    \/ ReplayRegister(r)

\* lib.rs:255-316  the key map after connect_device: the first key sends
\* Ctrl+M, which the user set, and the second key, which has a sound and no
\* keycode of its own, got its internal keycode
KeymapsConnected ==
    [i \in 1..NumKeys |->
        IF i = led_to_keymap_index(LedIndex[1]) + 1 THEN 272
        ELSE IF i = led_to_keymap_index(LedIndex[2]) + 1
             THEN internal_keycode_for_key(LedIndex[2])
             ELSE 0]

InitShortcut ==
    /\ InitSlot
    /\ conv = NoConv
    /\ InitLibrary(OldLibrary(1),
                   [k \in Keys |-> IF k <= 2 THEN OldEntry(OldInstants[1]).id
                                   ELSE None])
    /\ InitKeyboard([k \in Keys |-> "none"])
    /\ keymaps = KeymapsConnected
    /\ userSet = [i \in 1..NumKeys |-> KeymapsConnected[i] = 272]
    /\ shortcut_map = register_key_shortcuts(KeymapsConnected).shortcut_map
    /\ registered = register_key_shortcuts(KeymapsConnected).registered
    /\ InitPress
    /\ InitDev
    /\ InitLocks

\* Key presses of the two keys, the handler on the main thread and its replay
\* threads
NextShortcut ==
    \/ \E s \in registered : PressKey(s)
    \/ HandlerLookup("t1")
    \/ HandlerToggle("t1")
    \/ \E r \in ReplayThreads : HandlerReplay("t1", r)
    \/ \E r \in ReplayThreads : ReplayThread(r)

SpecShortcut == InitShortcut /\ [][NextShortcut]_vars

\* C30: simulate_qmk_keystroke never emits its keystroke while the shortcut of
\* that keystroke is registered, so that no replayed keystroke comes back to
\* the handler
C30_KeystrokeOnlyWhileUnregistered ==
    \A i \in 1..Len(emitted) : ~emitted[i].registered

\* ------------------------------------------------------------ the pad's keys
\* The key indexes the per-key commands are called with: the first key and one
\* past the last
KeyArgs == {LedIndex[1], NumKeys}
\* The slot names set_key_color is called with
SlotArgs == {"A", "B", "C"}
\* How many of its eight reports disable_all_overrides gets written
DisableCounts == {0, 1, NumKeys}

\* lib.rs:346-347  the slot that set_key_color edits
WithSlot(key, s, color) ==
    IF s = "A" THEN [key EXCEPT !.slot_a = color] ELSE [key EXCEPT !.slot_b = color]

\* A command of this section is counted; what all of them leave alone
PadFrame ==
    /\ nEdits < MaxEdits
    /\ nEdits' = nEdits + 1
    /\ UNCHANGED <<sound_library, key_sounds, storage, now, nImports>>
    /\ UNCHANGED <<tog, nPress, replay, events, emitted>>
    /\ UNCHANGED <<audioVars, lifeVars, conv, hookVars, lockVars>>

\* lib.rs:332-361  set_key_color: the slot is edited and made the key's active
\* slot before the pad is written, and a failed write returns through `?'
\* before persist_state
SetKeyColor(key_index, s, color, written) ==
    /\ IF key_index >= NumKeys \/ s \notin {"A", "B"}
       THEN /\ lret' = [status |-> "Err"]
            /\ UNCHANGED <<keycfg, active_slot, devKeys, ledFailed, persisted>>
       ELSE LET k == KeyOfLed(key_index)
                failed == keycfg[k].override_enabled /\ device /\ written < 3
            IN  /\ keycfg' = [keycfg EXCEPT ![k] = WithSlot(@, s, color)]
                /\ active_slot' = [active_slot EXCEPT ![k] = s]
                /\ IF keycfg[k].override_enabled /\ device
                   THEN /\ devKeys' = [devKeys EXCEPT ![k] =
                                          SendKeyColor(@, color, written)]
                        /\ ledFailed' = (ledFailed \/ written < 3)
                   ELSE UNCHANGED <<devKeys, ledFailed>>
                /\ IF failed THEN UNCHANGED persisted
                   ELSE Persist(sound_library, key_sounds)
                /\ lret' = [status |-> IF failed THEN "Err" ELSE "Ok"]
    /\ UNCHANGED <<global_slot, device, devKeymaps, mapVars>>
    /\ PadFrame

\* lib.rs:363-385  toggle_slot: the global indicator and every key's slot flip,
\* and every key is applied to the pad
ToggleSlotCmd(w) ==
    /\ global_slot' = ToggleSlot(global_slot)
    /\ active_slot' = [k \in Keys |-> ToggleSlot(active_slot[k])]
    /\ ApplyAll(keycfg, active_slot', w)
    /\ Persist(sound_library, key_sounds)
    /\ lret' = [status |-> "Ok", slot |-> global_slot']
    /\ UNCHANGED <<keycfg, device, devKeymaps, mapVars>>
    /\ PadFrame
\* lib.rs:1012-1040  do_toggle, the tray menu's toggle: as toggle_slot, and the
\* new slot is emitted as slot-toggled
DoToggle(w) ==
    /\ global_slot' = ToggleSlot(global_slot)
    /\ active_slot' = [k \in Keys |-> ToggleSlot(active_slot[k])]
    /\ ApplyAll(keycfg, active_slot', w)
    /\ Persist(sound_library, key_sounds)
    /\ lret' = [status |-> "Ok", slot |-> global_slot',
                event |-> "slot-toggled"]
    /\ UNCHANGED <<keycfg, device, devKeymaps, mapVars>>
    /\ PadFrame

\* lib.rs:387-410  toggle_key_slot
ToggleKeySlot(key_index, written) ==
    /\ IF key_index >= NumKeys
       THEN /\ lret' = [status |-> "Err"]
            /\ UNCHANGED <<active_slot, devKeys, ledFailed, persisted>>
       ELSE LET k == KeyOfLed(key_index)
            IN  /\ active_slot' = [active_slot EXCEPT ![k] = ToggleSlot(@)]
                /\ ApplyKey(k, keycfg, active_slot', written)
                /\ Persist(sound_library, key_sounds)
                /\ lret' = [status |-> "Ok"]
    /\ UNCHANGED <<keycfg, global_slot, device, devKeymaps, mapVars>>
    /\ PadFrame

\* lib.rs:474-492  set_key_override
SetKeyOverride(key_index, enabled, written) ==
    /\ IF key_index >= NumKeys
       THEN /\ lret' = [status |-> "Err"]
            /\ UNCHANGED <<keycfg, devKeys, ledFailed, persisted>>
       ELSE LET k == KeyOfLed(key_index)
            IN  /\ keycfg' = [keycfg EXCEPT ![k].override_enabled = enabled]
                /\ ApplyKey(k, keycfg', active_slot, written)
                /\ Persist(sound_library, key_sounds)
                /\ lret' = [status |-> "Ok"]
    /\ UNCHANGED <<active_slot, global_slot, device, devKeymaps, mapVars>>
    /\ PadFrame

\* lib.rs:494-504  restore_defaults: every key is KeyConfig::default() again
RestoreDefaults(w) ==
    /\ keycfg' = [k \in Keys |-> KeyConfigDefault]
    /\ active_slot' = [k \in Keys |-> "A"]
    /\ ApplyAll(keycfg', active_slot', w)
    /\ Persist(sound_library, key_sounds)
    /\ lret' = [status |-> "Ok"]
    /\ UNCHANGED <<global_slot, device, devKeymaps, mapVars>>
    /\ PadFrame

\* lib.rs:421-430  disable_all_overrides: the keys 0..7 in turn, until a report
\* cannot be written; the application's keys stay as they are
DisableAllOverrides(n) ==
    /\ IF device
       THEN /\ devKeys' = [k \in Keys |->
                              DisableOverride(devKeys[k],
                                              IF LedIndex[k] < n THEN 1 ELSE 0)]
            /\ ledFailed' = (ledFailed \/ n < NumKeys)
            /\ lret' = [status |-> IF n < NumKeys THEN "Err" ELSE "Ok"]
       ELSE /\ lret' = [status |-> "Ok"]
            /\ UNCHANGED <<devKeys, ledFailed>>
    /\ UNCHANGED <<keycfg, active_slot, global_slot, device, devKeymaps,
                   mapVars, persisted>>
    /\ PadFrame

\* lib.rs:529-539  bootloader_jump: the pad is gone
BootloaderJump ==
    /\ device
    /\ device' = FALSE
    /\ lret' = [status |-> "Ok"]
    /\ UNCHANGED <<keycfg, active_slot, global_slot, devKeys, devKeymaps,
                   ledFailed, mapVars, persisted>>
    /\ PadFrame

\* lib.rs:292-307  the keys that have a sound and no keycode get their internal
\* keycode
NeedsKeycode(maps, sounds, k) ==
    sounds[k] # None /\ maps[led_to_keymap_index(LedIndex[k]) + 1] = 0
AutoAssign(maps, sounds) ==
    [i \in 1..NumKeys |->
       IF \E k \in Keys : /\ led_to_keymap_index(LedIndex[k]) + 1 = i
                          /\ NeedsKeycode(maps, sounds, k)
       THEN internal_keycode_for_key(keymap_to_led_index(i - 1))
       ELSE maps[i]]

\* lib.rs:256-326  connect_device.  opened: Deck8Device::open succeeds; read:
\* read_all_keycodes succeeds; w: the reports of each key that are written;
\* sent: whether the auto-assigned keycode of a key reaches the pad.  The
\* failures after the open are only logged.
ConnectDevice(opened, read, w, sent) ==
    /\ IF opened
       THEN LET maps == IF read THEN devKeymaps ELSE keymaps
            IN  /\ device' = TRUE
                /\ devKeys' = apply_all_to_device(devKeys, keycfg, active_slot, w)
                /\ ledFailed' = \E k \in Keys : ApplyFailed(keycfg[k], w[k])
                /\ keymaps' = AutoAssign(maps, key_sounds)
                /\ devKeymaps' =
                      [i \in 1..NumKeys |->
                         IF \E k \in Keys :
                               /\ led_to_keymap_index(LedIndex[k]) + 1 = i
                               /\ NeedsKeycode(maps, key_sounds, k)
                               /\ sent[k]
                         THEN keymaps'[i]
                         ELSE devKeymaps[i]]
                /\ userSet' = [i \in 1..NumKeys |->
                                 userSet[i] /\ keymaps'[i] = keymaps[i]]
                /\ Reregister(keymaps')
       ELSE /\ device' = FALSE
            /\ UNCHANGED <<devKeys, ledFailed, devKeymaps, mapVars>>
    /\ lret' = [status |-> "Ok", connected |-> opened]
    /\ UNCHANGED <<keycfg, active_slot, global_slot, persisted>>
    /\ PadFrame

\* A key that profile::load_state read with its override on, and a key of the
\* pad that an earlier session left lit
LoadedKey == [slot_a |-> Green, slot_b |-> Red, override_enabled |-> TRUE]
LedLit == [enabled |-> TRUE, h |-> Blue.h, s |-> Blue.s, v |-> Blue.v]
\* The colours set_key_color is called with
ColorArgs == {Blue}
\* The keycodes set_keycode is called with
KeycodeArgs == {4}
\* The outcomes of apply_all_to_device: the reports of at most one key fail
ReportPlans ==
    {[k \in Keys |-> IF k = j THEN r ELSE 3] : j \in Keys, r \in Reports}

\* lib.rs:1049-1056, state.rs:112-125  the application after setup: no pad is
\* connected, the keys are those of the saved state, the pad holds what it
\* held before; no sound is in the library
InitPad ==
    /\ InitPipeline(InputConfig("Mic"))
    /\ conv = NoConv
    /\ InitLibrary(OldLibrary(0), [k \in Keys |-> None])
    /\ InitKeyboard([k \in Keys |-> "none"])
    /\ InitKeymap
    /\ InitPress
    /\ InitLocks
    /\ \E key \in {KeyConfigDefault, LoadedKey} :
          InitDevice([k \in Keys |-> key], [k \in Keys |-> LedLit],
                     KeymapsDefault)

\* The commands that change the keys or the pad, and key presses
NextPad ==
    \/ \E opened \in BOOLEAN, read \in BOOLEAN, w \in ReportPlans :
          ConnectDevice(opened, read, w, [k \in Keys |-> TRUE])
    \/ \E key_index \in KeyArgs, s \in SlotArgs, color \in ColorArgs,
          written \in Reports :
             SetKeyColor(key_index, s, color, written)
    \/ \E w \in ReportPlans : ToggleSlotCmd(w)
    \/ \E w \in ReportPlans : DoToggle(w)
    \/ \E key_index \in KeyArgs, written \in Reports :
          ToggleKeySlot(key_index, written)
    \/ \E key_index \in KeyArgs, enabled \in BOOLEAN, written \in Reports :
          SetKeyOverride(key_index, enabled, written)
    \/ \E w \in ReportPlans : RestoreDefaults(w)
    \/ \E n \in DisableCounts : DisableAllOverrides(n)
    \/ BootloaderJump
    \/ \E key_index \in KeyArgs : ToggleBegin("t1", key_index, NoEntry)
    \/ ToggleEmit("t1")
    \/ ToggleThreadEnd("t1")

SpecPad == InitPad /\ [][NextPad]_vars

\* The pad's key k shows what the application holds for it: its override is
\* off when override_enabled is false, otherwise it is on with the colour of
\* the key's active slot
KeyMatches(cfg, slots, leds, k) ==
    IF cfg[k].override_enabled
    THEN LET color == ActiveColor(cfg[k], slots[k])
         IN  leds[k] = [enabled |-> TRUE, h |-> color.h, s |-> color.s,
                        v |-> color.v]
    ELSE ~leds[k].enabled

\* The commands that change every key, and those that change the key key_index
AllKeysCommand ==
    \/ \E read \in BOOLEAN, w \in ReportPlans :
          ConnectDevice(TRUE, read, w, [k \in Keys |-> TRUE])
    \/ \E w \in ReportPlans : ToggleSlotCmd(w)
    \/ \E w \in ReportPlans : DoToggle(w)
    \/ \E w \in ReportPlans : RestoreDefaults(w)
OneKeyCommand(key_index) ==
    \/ \E s \in {"A", "B"}, color \in ColorArgs, written \in Reports :
          SetKeyColor(key_index, s, color, written)
    \/ \E written \in Reports : ToggleKeySlot(key_index, written)
    \/ \E enabled \in BOOLEAN, written \in Reports :
          SetKeyOverride(key_index, enabled, written)
    \/ ToggleBegin("t1", key_index, NoEntry)

\* C31: while a pad is connected and no report of a key's LED has failed since
\* it was connected, after connect_device, toggle_slot, do_toggle and
\* restore_defaults every key of the pad matches the application's key, and
\* after set_key_color, toggle_key_slot, set_key_override and do_toggle_key
\* the key they were called for does
C31_DeviceMatchesApp ==
    [][(device' /\ ~ledFailed') =>
          /\ AllKeysCommand =>
                \A k \in Keys : KeyMatches(keycfg', active_slot', devKeys', k)
          /\ \A key_index \in KeyArgs \ {NumKeys} :
                OneKeyCommand(key_index) =>
                   KeyMatches(keycfg', active_slot', devKeys',
                              KeyOfLed(key_index))]_vars
\* set_key_color has made the second slot of the first key blue while its
\* override is on, and the pad shows blue on that key though it showed another
\* colour or none after disable_all_overrides
C31_Witness ==
    /\ device /\ ~ledFailed
    /\ keycfg[1].override_enabled
    /\ keycfg[1].slot_b = Blue
    /\ active_slot[1] = "B"
    /\ devKeys[1] = LedLit
    /\ keycfg[2].override_enabled /\ ~devKeys[2].enabled

\* ------------------------------------------------- key commands that fail
\* The key commands that return a Result, called with any key index, after
\* connect_device
KeyCommand ==
    \/ \E key_index \in KeyArgs, s \in SlotArgs, color \in ColorArgs,
          written \in Reports :
             SetKeyColor(key_index, s, color, written)
    \/ \E key_index \in KeyArgs, written \in Reports :
          ToggleKeySlot(key_index, written)
    \/ \E key_index \in KeyArgs, enabled \in BOOLEAN, written \in Reports :
          SetKeyOverride(key_index, enabled, written)
    \/ \E key_index \in KeyArgs, keycode \in KeycodeArgs, written \in BOOLEAN :
          SetKeycode(key_index, keycode, written)
    \/ \E key_index \in KeyArgs : SetKeySound(key_index, None)

NextKeyErr ==
    \/ \E opened \in BOOLEAN, read \in BOOLEAN, w \in ReportPlans :
          ConnectDevice(opened, read, w, [k \in Keys |-> TRUE])
    \/ \E key_index \in KeyArgs, s \in SlotArgs, color \in ColorArgs,
          written \in Reports :
             SetKeyColor(key_index, s, color, written)
    \/ \E key_index \in KeyArgs, written \in Reports :
          ToggleKeySlot(key_index, written)
    \/ \E key_index \in KeyArgs, enabled \in BOOLEAN, written \in Reports :
          SetKeyOverride(key_index, enabled, written)
    \/ \E key_index \in KeyArgs, keycode \in KeycodeArgs, written \in BOOLEAN :
          SetKeycode(key_index, keycode, written)
    \/ \E key_index \in KeyArgs : SetKeySound(key_index, None)

SpecKeyErr == InitPad /\ [][NextKeyErr]_vars

\* C32: a key command that returns an error leaves the keys (their slots,
\* active slot and override), the key map and the audio configuration as they
\* were before the call
C32_ErrorLeavesState ==
    [][(KeyCommand /\ lret'.status = "Err") =>
          UNCHANGED <<keycfg, active_slot, keymaps, sound_library, key_sounds,
                      audio_config>>]_vars
\* The part of the claim that the code keeps: a command that fails for its
\* key index or its slot name, and a set_keycode whose write fails, change
\* nothing
C32_RejectedArgumentsKept ==
    [][((\/ \E s \in SlotArgs, color \in ColorArgs, written \in Reports :
              SetKeyColor(NumKeys, s, color, written)
         \/ \E key_index \in KeyArgs, color \in ColorArgs, written \in Reports :
              SetKeyColor(key_index, "C", color, written)
         \/ \E written \in Reports : ToggleKeySlot(NumKeys, written)
         \/ \E enabled \in BOOLEAN, written \in Reports :
              SetKeyOverride(NumKeys, enabled, written)
         \/ \E key_index \in KeyArgs, keycode \in KeycodeArgs,
               written \in BOOLEAN :
              SetKeycode(key_index, keycode, written)
         \/ SetKeySound(NumKeys, None))
        /\ lret'.status = "Err") =>
          UNCHANGED <<keycfg, active_slot, keymaps, sound_library, key_sounds,
                      audio_config>>]_vars

\* ------------------------------------------------------- the two mutexes
\* A lock() call on a mutex made in function `by', and the drop of its guard
Lock(m, by) == [op |-> "lock", m |-> m, by |-> by]
Unlock(m) == [op |-> "unlock", m |-> m, by |-> ""]

\* lib.rs:341-361 and every command that only locks the state for its body
state_command == <<Lock("state", "command"), Unlock("state")>>
\* a volume command that keeps the state's guard while it locks the slot
set_volume_nested ==
    <<Lock("state", "set_volume"), Lock("slot", "set_volume"),
      Unlock("slot"), Unlock("state")>>
\* lib.rs:911-920, 929-938, 883-903  set_sound_volume, set_mic_volume and
\* preview_library_sound: drop(st) comes before the slot is locked
set_volume ==
    <<Lock("state", "set_volume"), Unlock("state"),
      Lock("slot", "set_volume"), Unlock("slot")>>
\* lib.rs:684-730  try_auto_start_pipeline: the stop block, the configuration
\* read, and the store block, which locks the state under the slot's guard and
\* drops the guards in reverse order
try_auto_start_pipeline ==
    <<Lock("slot", "try_auto_start_pipeline"), Unlock("slot"),
      Lock("state", "try_auto_start_pipeline"), Unlock("state"),
      Lock("slot", "try_auto_start_pipeline"),
      Lock("state", "try_auto_start_pipeline"),
      Unlock("state"), Unlock("slot")>>
\* lib.rs:733-759  set_audio_input_device, set_audio_output_device
set_audio_device == state_command \o try_auto_start_pipeline
\* lib.rs:449-472, 828-876, 257-315  set_keycode, set_key_sound and
\* connect_device: the state's guard is dropped, then register_key_shortcuts
\* (lib.rs:168-169) locks the state itself
register_caller ==
    <<Lock("state", "command"), Unlock("state"),
      Lock("state", "register_key_shortcuts"), Unlock("state")>>
\* lib.rs:955-1000  do_toggle_key: the state block, then the slot
do_toggle_key ==
    <<Lock("state", "do_toggle_key"), Unlock("state"),
      Lock("slot", "do_toggle_key"), Unlock("slot")>>
\* lib.rs:1132-1144  the shortcut handler: the lookup, then do_toggle_key
shortcut_handler ==
    <<Lock("state", "handler"), Unlock("state")>> \o do_toggle_key

Routines ==
    {"state_command", "set_volume", "try_auto_start_pipeline",
     "set_audio_device", "register_caller", "do_toggle_key",
     "shortcut_handler"}
Calls(r) ==
    CASE r = "state_command" -> state_command
      [] r = "set_volume" -> set_volume
      [] r = "try_auto_start_pipeline" -> try_auto_start_pipeline
      [] r = "set_audio_device" -> set_audio_device
      [] r = "register_caller" -> register_caller
      [] r = "do_toggle_key" -> do_toggle_key
      [] r = "shortcut_handler" -> shortcut_handler
      [] OTHER -> <<>>
\* The calls after which a routine may return early: try_auto_start_pipeline
\* with a device unset, no virtual cable or a failed start (lib.rs:698-711,
\* 726-728), set_keycode with an Err (lib.rs:458-463), do_toggle_key without a
\* sound file (lib.rs:988-990), the handler without an entry (lib.rs:1165)
Exits(r) ==
    CASE r = "try_auto_start_pipeline" -> {4}
      [] r = "set_audio_device" -> {6}
      [] r = "register_caller" -> {2}
      [] r = "do_toggle_key" -> {2}
      [] r = "shortcut_handler" -> {2, 4}
      [] OTHER -> {}

LockFrame ==
    UNCHANGED <<audioVars, lifeVars, conv, libVars, hookVars, mapVars,
                pressVars, devVars>>

\* A command, a handler or a key press starts on an idle thread
BeginRoutine(t, r) ==
    /\ lk[t] = IdleThread
    /\ lk' = [lk EXCEPT ![t] = [routine |-> r, at |-> 0, held |-> <<>>]]
    /\ UNCHANGED mutex
    /\ LockFrame

\* The next lock() or drop of thread t.  std::sync::Mutex::lock blocks until
\* the mutex is free, also when the caller holds it itself.
NextCall(t) == Calls(lk[t].routine)[lk[t].at + 1]
Blocked(t) ==
    /\ lk[t].at < Len(Calls(lk[t].routine))
    /\ NextCall(t).op = "lock"
    /\ mutex[NextCall(t).m] # Free
CallStep(t) ==
    /\ lk[t].at < Len(Calls(lk[t].routine))
    /\ ~Blocked(t)
    /\ LET c == NextCall(t)
       IN  IF c.op = "lock"
           THEN /\ mutex' = [mutex EXCEPT ![c.m] = t]
                /\ lk' = [lk EXCEPT ![t].at = @ + 1,
                                    ![t].held = Append(@, c.m)]
           ELSE /\ mutex' = [mutex EXCEPT ![c.m] = Free]
                /\ lk' = [lk EXCEPT ![t].at = @ + 1,
                                    ![t].held = SelectSeq(@, LAMBDA m : m # c.m)]
    /\ LockFrame

\* The routine returns, at its end or at one of its early returns
ReturnStep(t) ==
    /\ lk[t].routine # "none"
    /\ \/ lk[t].at = Len(Calls(lk[t].routine))
       \/ lk[t].at \in Exits(lk[t].routine)
    /\ lk' = [lk EXCEPT ![t] = IdleThread]
    /\ UNCHANGED mutex
    /\ LockFrame

NextLocks ==
    \/ \E t \in LockThreads, r \in Routines : BeginRoutine(t, r)
    \/ \E t \in LockThreads : CallStep(t)
    \/ \E t \in LockThreads : ReturnStep(t)

SpecLocks == InitPad /\ [][NextLocks]_vars

\* C33: whenever a thread is inside a routine, some thread inside a routine
\* can take its next step, so no set of threads waits for each other on the
\* state's and the slot's mutex; no thread holds the slot's mutex taken under
\* the state's; and a thread about to lock the state in
\* register_key_shortcuts does not hold the state's mutex
C33_NoDeadlock ==
    /\ (\E t \in LockThreads : lk[t].routine # "none") =>
          \E t \in LockThreads : lk[t].routine # "none" /\ ~Blocked(t)
    /\ \A t \in LockThreads : lk[t].held # <<"state", "slot">>
    /\ \A t \in LockThreads :
          (/\ lk[t].at < Len(Calls(lk[t].routine))
           /\ NextCall(t).by = "register_key_shortcuts") =>
             \A i \in 1..Len(lk[t].held) : lk[t].held[i] # "state"
\* try_auto_start_pipeline holds the slot's and the state's mutex in its store
\* block while a volume command that has updated audio_config waits for the
\* slot
C33_Witness ==
    \E t \in LockThreads, u \in LockThreads :
       /\ lk[t].routine = "try_auto_start_pipeline"
       /\ lk[t].held = <<"slot", "state">>
       /\ lk[u].routine = "set_volume"
       /\ Blocked(u)

\* ------------------------------------------------- the volume commands
VolumeFrame ==
    /\ Persist(sound_library, key_sounds)
    /\ UNCHANGED <<conv, sound_library, key_sounds, storage, now, nImports, lret,
                   keyVars>>

\* lib.rs:924-932  set_mic_volume on thread c, under the state's mutex: the
\* volume goes into audio_config and the state is persisted
SetMicVolumeStore(c, v) ==
    /\ cpc[c] = "idle"
    /\ overlap' = (overlap \/ \E e \in CmdThreads \ {c} : cpc[e] # "idle")
    /\ audio_config' = [audio_config EXCEPT !.mic_volume = v]
    /\ cpc' = [cpc EXCEPT ![c] = "mic_volume"]
    /\ local' = [local EXCEPT ![c] = [NoLocal EXCEPT !.mic_vol = v]]
    /\ UNCHANGED <<audioVars, slot, pipes, nCmds>>
    /\ VolumeFrame
\* lib.rs:906-914  set_sound_volume, likewise
SetSoundVolumeStore(c, v) ==
    /\ cpc[c] = "idle"
    /\ overlap' = (overlap \/ \E e \in CmdThreads \ {c} : cpc[e] # "idle")
    /\ audio_config' = [audio_config EXCEPT !.sound_volume = v]
    /\ cpc' = [cpc EXCEPT ![c] = "sound_volume"]
    /\ local' = [local EXCEPT ![c] = [NoLocal EXCEPT !.sound_vol = v]]
    /\ UNCHANGED <<audioVars, slot, pipes, nCmds>>
    /\ VolumeFrame

\* lib.rs:934-938  under the slot's mutex: the pipeline in the slot, if there
\* is one, gets the volume
SetMicVolumeApply(c) ==
    /\ cpc[c] = "mic_volume"
    /\ SlotLockFree
    /\ micVol' = IF slot # 0 THEN local[c].mic_vol ELSE micVol
    /\ cpc' = [cpc EXCEPT ![c] = "idle"]
    /\ local' = [local EXCEPT ![c] = NoLocal]
    /\ UNCHANGED <<alive, fmt, inputOn, capBuf, injBuf, sndVol, prodLock, cbData,
                   out, pc, clip, idx, call, ret, nCalls, monitors>>
    /\ UNCHANGED <<slot, pipes, audio_config, nCmds, overlap>>
    /\ UNCHANGED offlineVars
\* lib.rs:916-920
SetSoundVolumeApply(c) ==
    /\ cpc[c] = "sound_volume"
    /\ SlotLockFree
    /\ sndVol' = IF slot # 0 THEN local[c].sound_vol ELSE sndVol
    /\ cpc' = [cpc EXCEPT ![c] = "idle"]
    /\ local' = [local EXCEPT ![c] = NoLocal]
    /\ UNCHANGED <<alive, fmt, inputOn, capBuf, injBuf, micVol, prodLock, cbData,
                   out, pc, clip, idx, call, ret, nCalls, monitors>>
    /\ UNCHANGED <<slot, pipes, audio_config, nCmds, overlap>>
    /\ UNCHANGED offlineVars

\* The volume commands on thread c
VolumeCommand(c) ==
    \/ \E v \in Vols : SetMicVolumeStore(c, v)
    \/ SetMicVolumeApply(c)
    \/ \E v \in Vols : SetSoundVolumeStore(c, v)
    \/ SetSoundVolumeApply(c)

\* Volume commands and pipeline restarts on the command threads
NextVolume == \E c \in CmdThreads : AutoStart(c) \/ VolumeCommand(c)

SpecVolume == InitLife /\ [][NextVolume]_vars

\* No volume command and no try_auto_start_pipeline call is under way, and
\* the slot holds a pipeline
Settled == (\A c \in CmdThreads : cpc[c] = "idle") /\ slot # 0

\* C34: once the volume commands and the pipeline starts under way have
\* completed, the running pipeline's volumes are those of audio_config
C34_VolumesAgree ==
    Settled => /\ micVol = audio_config.mic_volume
               /\ sndVol = audio_config.sound_volume
\* What the code keeps: the volumes agree when no two of these calls have
\* overlapped
C34_SerialVolumesAgree ==
    (Settled /\ ~overlap) => /\ micVol = audio_config.mic_volume
                             /\ sndVol = audio_config.sound_volume

\* ------------------------------------------- soundboard_enabled and the slot
\* C35: when no try_auto_start_pipeline call is under way and
\* audio_config.soundboard_enabled is true, the slot holds a running pipeline
C35_EnabledMeansRunning ==
    ((\A c \in CmdThreads : cpc[c] = "idle") /\ audio_config.soundboard_enabled)
       => (slot # 0 /\ alive)

\* ------------------------------------------------ sounds and internal keycodes
\* Every report of every key's LED is written
AllWritten == [k \in Keys |-> 3]

\* Sounds are assigned to keys and removed from the library, and the pad is
\* connected
NextSound ==
    \/ \E key_index \in KeyIndexes, sound_id \in KnownIds \cup {None} :
          SetKeySound(key_index, sound_id)
    \/ \E sound_id \in KnownIds, removed \in BOOLEAN :
          RemoveFromSoundLibrary(sound_id, removed)
    \/ \E opened \in BOOLEAN, read \in BOOLEAN, sent \in [Keys -> BOOLEAN] :
          ConnectDevice(opened, read, AllWritten, sent)

SpecSound == InitLib /\ [][NextSound]_vars

\* C36: every key whose keymap entry is an internal keycode has a sound in
\* key_sounds
C36_InternalKeycodeHasSound ==
    \A k \in Keys :
       is_internal_keycode(keymaps[led_to_keymap_index(LedIndex[k]) + 1]) =>
          key_sounds[k] # None

\* ------------------------------------------------ the resampler's source index
\* C37: whatever the length of the channel-converted samples and the two rates,
\* every output index i < out_len of the resampler reads the source index
\* floor(i * ratio) inside the channel-converted samples, so s0 is a
\* sample and never the 0.0 of unwrap_or; s1 is the next sample, or s0 again
\* when that index is the last; and the output is s0 + (s1 - s0) * frac, frac
\* being the fractional part of i * ratio.
C37_ResamplerReadsInside ==
    (conv.stage = "resampled" /\ conv.src_rate # conv.dst_rate)
        => LET cc == ChannelConvert(conv.raw, conv.path[1], conv.path[2])
               ratio == FDiv(F64(conv.src_rate), F64(conv.dst_rate))
           IN  \A j \in 1..Len(conv.samples) :
                 LET k == ResampleIndex(j - 1, ratio)
                     fracNum == ((j - 1) * conv.src_rate) % conv.dst_rate
                     s0 == cc[k + 1]
                     s1 == IF k + 1 < Len(cc) THEN cc[k + 2] ELSE s0
                 IN  /\ k < Len(cc)
                     /\ k = ((j - 1) * conv.src_rate) \div conv.dst_rate
                     /\ conv.samples[j]
                          = s0 + ((s1 - s0) * fracNum) \div conv.dst_rate

\* 10 ms of stereo at 8 kHz for a stereo pipeline at 48 kHz: 160 samples become
\* 960, and the last output reads the last sample and repeats it
C37_Witness ==
    /\ conv.stage = "resampled"
    /\ conv.src_rate = 8000 /\ conv.dst_rate = 48000
    /\ conv.path = <<2, 2>>
    /\ conv.chan_len = 160 /\ Len(conv.samples) = 960
    /\ ResampleIndex(959, FDiv(F64(8000), F64(48000))) = 159
    /\ conv.samples[960] = conv.raw[160]
    /\ conv.samples[960] # 0

\* ------------------------------------------------------- the trimmed range
\* <<start_ms, end_ms>> of a trim of the 20 ms sources: their first half, their
\* second quarter, and a range whose end lies before its start
TrimRanges ==
    {<<U64(0), U64(10)>>, <<U64(5), U64(10)>>, <<U64(10), U64(5)>>}

\* lib.rs:948-951, audio.rs:217-257  preview_trim: the samples of the range are
\* collected and handed to the thread that plays them; first and count say
\* which.  `checked`: the build has overflow checks.
PreviewTrim(src, start_ms, end_ms, checked) ==
    /\ LET d == DecodedSource(src)
           r == TrimRange(Len(d.raw), start_ms, end_ms, d.sample_rate, d.channels)
           Fail(status) == [cmd |-> "preview_trim", status |-> status]
       IN  lret' = IF ~Readable(src) THEN Fail("Cannot open")
                   ELSE IF r.overflow /\ checked THEN Fail("panic")
                   ELSE IF r.count = 0 THEN Fail("Trimmed audio is empty")
                   ELSE [cmd |-> "preview_trim", status |-> "Ok",
                         source |-> src, first |-> r.first, count |-> r.count]
    /\ UNCHANGED <<sound_library, key_sounds, storage, persisted, nImports, now>>
    /\ UNCHANGED <<audioVars, lifeVars, conv, keyVars>>

NextTrim ==
    \/ \E src \in SourceFiles, display_name \in DisplayNames,
          ms \in TrimRanges, checked \in BOOLEAN,
          written \in {"all", "part", "none"} :
             AddToSoundLibraryTrimmed(src, display_name, ms[1], ms[2],
                                      checked, written)
    \/ \E src \in SourceFiles, ms \in TrimRanges, checked \in BOOLEAN :
          PreviewTrim(src, ms[1], ms[2], checked)

\* The trims start from an empty library
InitTrim == InitLib /\ sound_library = <<>>

SpecTrim == InitTrim /\ [][NextTrim]_vars

\* A step of one of the two trimming operations on a file that decodes
TrimStep(src, ms, checked) ==
    /\ Readable(src)
    /\ \/ PreviewTrim(src, ms[1], ms[2], checked)
       \/ \E display_name \in DisplayNames, written \in {"all", "part", "none"} :
             AddToSoundLibraryTrimmed(src, display_name, ms[1], ms[2],
                                      checked, written)

\* C38: for every start_ms, end_ms, sample rate and channel count, the sample
\* offsets ms * sample_rate * channels / 1000 of import_to_library_trimmed and
\* preview_trim are multiples of the channel count: the samples taken begin
\* and end on a frame boundary.
C38_OffsetsOnFrameBoundary ==
    [][\A src \in SourceFiles, ms \in TrimRanges, checked \in BOOLEAN :
          (TrimStep(src, ms, checked) /\ U64LessEq(ms[1], ms[2]))
             => LET d == DecodedSource(src)
                    r == TrimRange(Len(d.raw), ms[1], ms[2],
                                   d.sample_rate, d.channels)
                IN  /\ r.first % d.channels = 0
                    /\ (r.first + r.count) % d.channels = 0]_vars

\* C39: import_to_library_trimmed and preview_trim called with
\* end_ms < start_ms return the empty-trim error: no panic, no wrap-around of
\* end_sample - start_sample, no sample taken, no file written and nothing
\* played.
C39_ReversedRangeRejected ==
    [][\A src \in SourceFiles, ms \in TrimRanges, checked \in BOOLEAN :
          (TrimStep(src, ms, checked) /\ ~U64LessEq(ms[1], ms[2]))
             => /\ lret'.status = "Trimmed audio is empty"
                /\ storage' = storage
                /\ sound_library' = sound_library]_vars
====
